---- MODULE Spec2Model ----
(***************************************************************************)
(* A model of p2's node preparer (the per-pod worker loop of               *)
(* WatchForPodManifestsForNode / handlePods / installAndLaunchPod) and of  *)
(* the pod lifecycle engine it drives (pkg/pods/pod.go: Launch,            *)
(* WriteCurrentManifest, revertCurrentManifest, CurrentManifest).          *)
(*                                                                         *)
(* Two specifications share the module:                                    *)
(*   Spec     the preparer: the intent watch, the main dispatch loop and   *)
(*            one worker goroutine per channel, with the Pod interface     *)
(*            calls (Install, CurrentManifest, Halt, Launch) as steps;     *)
(*   SpecPod  one Pod value under a sequence of Launch calls, with every   *)
(*            file-system step of WriteCurrentManifest as its own step.    *)
(***************************************************************************)
EXTENDS Integers, Sequences, FiniteSets, TLC

\* ------------------------------------------------------------------ bounds
\* Number of distinct manifest contents (fingerprints) per pod id.
MaxVer == 2
\* Number of goroutine slots the model has for pod workers.
MaxWorkers == 3
\* Number of launchables in a manifest.
NumLaunchables == 2
\* Largest modify index the roll tree of the KV store reaches.
MaxIndex == 3
\* Largest replica count of a replication controller when a roll begins, and
\* the replica count the rolled Update asks for.
MaxReplicas == 2
\* Largest number of MonitorHealth goroutines of one pod the model follows.
MaxMonitors == 2

Pods == {"web", "db"}
Versions == 1..MaxVer
Workers == 1..MaxWorkers
LaunchableIdx == 1..NumLaunchables

\* ------------------------------------------------------------- data model
\* A manifest: its pod id, its content version and the type tag of each of
\* its launchable stanzas.  The zero value is Go's pods.PodManifest{}.
HoistTypes == [i \in LaunchableIdx |-> "hoist"]
Manifest(id, ver) == [id |-> id, ver |-> ver, types |-> HoistTypes]
ZeroManifest == [id |-> "", ver |-> 0, types |-> << >>]

\* The fingerprint of a manifest: a hash of its content (pod id, content
\* version, launchable stanzas), taken to be collision free.
SHA(m) == <<m.id, m.ver, m.types>>

\* The content of a manifest file: absent, partial (created or truncated,
\* with none or only a part of a manifest in it) or a complete manifest.
NoFile == [st |-> "absent", m |-> ZeroManifest]
PartialFile == [st |-> "partial", m |-> ZeroManifest]
FileOf(m) == [st |-> "complete", m |-> m]

\* ------------------------------------------------------------------ state
VARIABLES
  \* --- preparer (Spec)
  intent,            \* KV intent tree of the node: the pod ids that have an entry
  watchOut,          \* what watcher.WatchPods is blocked sending: none, an error or a manifest
  mainPc,            \* main loop: "select" (line 51) or "send" (line 63)
  mainManifest,      \* the manifest the main loop is sending at line 63
  podChanMap,        \* pod id -> channel (named by the worker that reads it), 0 = nil
  quitChanMap,       \* pod id -> quit channel (named by its worker), 0 = nil
  quitClosed,        \* worker -> whether its quit channel has been closed
  wpod,              \* worker -> pod id it serves, "" = goroutine not started
  wpc,               \* worker -> position in handlePods / installAndLaunchPod
  manifestToLaunch,  \* worker -> handlePods' local manifestToLaunch
  working,           \* worker -> handlePods' local working
  disk,              \* pod id -> content of <pod>/current_manifest.yaml
  running,           \* pod id -> version whose services run, 0 = halted / none
  hookArg,           \* worker -> manifest handed to the last RunHooks call
  \* --- history of the preparer, for the properties
  lastRecv,          \* worker -> newest manifest received and not yet applied
  retrying,          \* worker -> an attempt at the pending work has failed
  superseded,        \* worker -> a manifest arrived while the worker was retrying
  attHalt,           \* worker -> Halt in the current attempt: "no", "failed", "stopped"
  attLaunched,       \* worker -> the current attempt called Launch
  attEqual,          \* worker -> the current attempt found equal fingerprints
  attInstallFailed,  \* worker -> Install failed in the current attempt
  \* --- one Pod under Launch calls (SpecPod)
  pfile,             \* content of the pod's current_manifest.yaml
  lastFile,          \* content of <tmpDir>/last_manifest.yaml
  lpc,               \* position in Launch / WriteCurrentManifest
  lm,                \* Launch's argument manifest
  lerr,              \* the err local of the running function
  successes,         \* Launch's local successes ([]bool)
  lsuccess,          \* Launch's local success
  li,                \* index of the launchable a loop of Launch is at
  symlink,           \* launchable -> version its `current` symlink points to, 0 = none
  sbConfig,          \* version of the pod's activated servicebuilder config, 0 = none
  started,           \* launchable -> version of its running services, 0 = none
  lret,              \* what the last Launch call returned
  \* --- history of the Launch call, for the properties
  preFile,           \* current_manifest.yaml when the call began
  wcmFail,           \* the step of WriteCurrentManifest that failed, or "none"
  reverted,          \* revertCurrentManifest in this call: "n/a", "ok", "failed"
  ops,               \* the launchable / supervisor operations this call performed
  startOuts,         \* what Launch's second loop did with each launchable it reached
  \* --- the same Pod under Install, Halt and Uninstall calls (SpecLife)
  homeDir,           \* whether the pod's home directory exists
  installed,         \* launchable -> version of its installed artifact, 0 = none
  config,            \* version of the pod's config and env files, 0 = none
  op,                \* the Pod method being called
  opc,               \* position in that method
  om,                \* its argument manifest (Uninstall: the manifest it loaded)
  oi,                \* index of the launchable its loop is at
  osuccess,          \* Halt's local success
  oret,              \* what the call returned
  \* --- history of the call, for the properties
  pre,               \* the pod's files and services when the call began
  haltOuts,          \* what launchable.Halt returned for each launchable reached
  steps,             \* the steps of Uninstall attempted so far, in order
  \* --- the roll store and its callers (SpecStore)
  kvIndex,           \* modify index of the last write under the roll tree
  rolls,             \* RC id -> KV entry at rolls/<id>: modify index (0 = no entry) and value
  holders,           \* RC id -> sessions that hold the lock key of rolls/<id>
  dead,              \* the sessions that were destroyed
  cop,               \* client -> the Store method it is calling
  cst,               \* client -> "idle", "sent" (request under way) or "done"
  carg,              \* client -> arguments of the call
  cres,              \* client -> what the call returned
  \* --- history of the calls, for the properties
  cpre,              \* client -> what the KV store held when it served the call
  cpost,             \* client -> what it held right after, and whether the KV call failed
  putWins,           \* RC id -> Puts that returned nil since rolls/<id> was last absent
  \* --- the roll controllers working on one Update (SpecRoll)
  rcDesired,         \* RC id -> replicasDesired of the replication controller
  healthy,           \* number of nodes on which the new RC's pod is Passing
  rpc,               \* client -> where it is as a roll controller
  robs,              \* client -> the replica counts and health it observed last
  \* --- history of the roll, for the properties
  owned,             \* client -> it was granted both locks
  refused,           \* client -> a Lock of it returned (false, nil)
  mutations,         \* client -> replica-count steps it applied
  applied,           \* the replica counts from which a step was applied
  lastStep,          \* the last applied step: old count it left, health it was computed from
  dup,               \* a step was applied from replica counts already stepped from
  \* --- the goroutine of consulStore.Watch and its caller (SpecWatch)
  tpc,               \* where the goroutine is
  currentIndex,      \* its currentIndex
  listed,            \* the values kv.List returned, in key order
  ti,                \* position of its range loop in listed
  wout,              \* its out slice
  quitCh,            \* the quit channel is closed
  closed,            \* the channels of outCh and errCh that are closed
  consuming,         \* the caller still receives from outCh and errCh
  \* --- history of the watch, for the properties
  lst,               \* the roll tree and the WaitIndex at the last kv.List
  errsSent,          \* parse errors sent since the last kv.List
  emitted,           \* the last batch sent, with the listing it came from
  \* --- a call of updatePods (SpecUpdatePods, SpecHealth)
  upc,               \* where the call is
  ucur,              \* its argument current: the PodWatches, in order
  ureal,             \* its argument reality: the ManifestResults, in order
  sigs,              \* position in current -> values sent on that watch's shutdownCh
  ui,                \* index of the loop the call is in
  unew,              \* its newCurrent
  \* --- WatchHealth and the monitors (SpecHealth)
  hpc,               \* where WatchHealth is
  hpods,             \* its pods slice
  realTree,          \* the pod paths under reality/<node>
  monitors,          \* pod path -> MonitorHealth goroutines running
  lastResult         \* the health.Result of the latest checkHealth

envVars == <<intent, watchOut>>
mainVars == <<mainPc, mainManifest, podChanMap, quitChanMap, quitClosed>>
workerVars == <<wpod, wpc, manifestToLaunch, working, hookArg>>
fsVars == <<disk, running>>
histVars == <<lastRecv, retrying, superseded, attHalt, attLaunched, attEqual,
              attInstallFailed>>
prepVars == <<envVars, mainVars, workerVars, fsVars, histVars>>

podVars == <<pfile, lastFile, lpc, lm, lerr, successes, lsuccess, li, symlink,
             sbConfig, started, lret, preFile, wcmFail, reverted, ops, startOuts>>

lifeVars == <<homeDir, installed, config, op, opc, om, oi, osuccess, oret, pre,
              haltOuts, steps>>

rollVars == <<rcDesired, healthy, rpc, robs, owned, refused, mutations, applied,
              lastStep, dup>>

watchVars == <<tpc, currentIndex, listed, ti, wout, quitCh, closed, consuming,
               lst, errsSent, emitted>>

healthVars == <<upc, ucur, ureal, sigs, ui, unew, hpc, hpods, realTree, monitors,
                lastResult>>

kvVars == <<kvIndex, rolls, holders, dead, cop, cst, carg, cres, cpre, cpost,
            putWins>>

storeVars == <<kvVars, rollVars, watchVars, healthVars>>

vars == <<prepVars, podVars, lifeVars, storeVars>>

\* ------------------------------------------------------- intent watcher
NoMsg == [kind |-> "none", m |-> ZeroManifest]
ErrMsg == [kind |-> "err", m |-> ZeroManifest]
ManifestMsg(m) == [kind |-> "manifest", m |-> m]

\* An external writer creates or deletes the intent entry of a pod.
IntentWrite(p) ==
  /\ intent' = IF p \in intent THEN intent \ {p} ELSE intent \cup {p}
  /\ UNCHANGED <<podVars, lifeVars, storeVars>>
  /\ UNCHANGED <<watchOut, mainVars, workerVars, fsVars, histVars>>

\* The entry of pod p is (over)written with content v and watcher.WatchPods
\* has that manifest ready on podChan (unbuffered: it stays ready until the
\* main loop receives it).
WatcherEmitManifest(p, v) ==
  /\ watchOut = NoMsg
  /\ p \in intent
  /\ watchOut' = ManifestMsg(Manifest(p, v))
  /\ UNCHANGED <<podVars, lifeVars, storeVars>>
  /\ UNCHANGED <<intent, mainVars, workerVars, fsVars, histVars>>

\* watcher.WatchPods has an error ready on errChan.
WatcherEmitError ==
  /\ watchOut = NoMsg
  /\ watchOut' = ErrMsg
  /\ UNCHANGED <<podVars, lifeVars, storeVars>>
  /\ UNCHANGED <<intent, mainVars, workerVars, fsVars, histVars>>

\* ------------------------------------------------------------ main loop
\* `case err := <-errChan`: the error is printed.
MainRecvErr ==
  /\ mainPc = "select"
  /\ watchOut.kind = "err"
  /\ watchOut' = NoMsg
  /\ UNCHANGED <<podVars, lifeVars, storeVars>>
  /\ UNCHANGED <<intent, mainVars, workerVars, fsVars, histVars>>

\* Faulty variant: a goroutine is started for every manifest received.
NeedsWorker_Always(pcm, podId) == TRUE

\* `if podChanMap[podId] == nil`: no goroutine serves this pod id yet.
NeedsWorker(pcm, podId) == pcm[podId] = 0

\* The goroutine slot a `go handlePods(...)` statement starts.
FreeWorkers == {w \in Workers : wpod[w] = ""}
NewWorker == CHOOSE w \in FreeWorkers : \A u \in FreeWorkers : w <= u

\* `case manifest := <-podChan`, up to the send: start a worker for the pod
\* id when the map has no channel for it.
MainRecvManifest ==
  /\ mainPc = "select"
  /\ watchOut.kind = "manifest"
  /\ LET m == watchOut.m
         podId == m.id
     IN /\ IF NeedsWorker(podChanMap, podId)
             THEN /\ FreeWorkers # {}
                  /\ podChanMap' = [podChanMap EXCEPT ![podId] = NewWorker]
                  /\ quitChanMap' = [quitChanMap EXCEPT ![podId] = NewWorker]
                  /\ wpod' = [wpod EXCEPT ![NewWorker] = podId]
                  /\ wpc' = [wpc EXCEPT ![NewWorker] = "select"]
             ELSE UNCHANGED <<podChanMap, quitChanMap, wpod, wpc>>
        /\ mainManifest' = m
  /\ mainPc' = "send"
  /\ watchOut' = NoMsg
  /\ UNCHANGED <<podVars, lifeVars, storeVars>>
  /\ UNCHANGED <<intent, quitClosed, manifestToLaunch, working, hookArg,
                 fsVars, histVars>>

\* Faulty variant: a manifest received while work is pending is dropped.
RecvManifest_KeepPending(old, isWorking, new) == IF isWorking THEN old ELSE new

\* `manifestToLaunch = <-podChan`: the received manifest replaces the local.
RecvManifest(old, isWorking, new) == new

\* `podChanMap[podId] <- manifest` meeting the worker's
\* `case manifestToLaunch = <-podChan: working = true`.  The channel is
\* unbuffered, so the send completes only when the worker is at its select.
MainSend ==
  /\ mainPc = "send"
  /\ LET w == podChanMap[mainManifest.id]
     IN /\ wpc[w] = "select"
        /\ manifestToLaunch' = [manifestToLaunch EXCEPT
               ![w] = RecvManifest(manifestToLaunch[w], working[w], mainManifest)]
        /\ working' = [working EXCEPT ![w] = TRUE]
        /\ lastRecv' = [lastRecv EXCEPT ![w] = mainManifest]
        /\ superseded' = [superseded EXCEPT ![w] = @ \/ (working[w] /\ retrying[w])]
  /\ mainPc' = "select"
  /\ mainManifest' = ZeroManifest
  /\ UNCHANGED <<podVars, lifeVars, storeVars>>
  /\ UNCHANGED <<envVars, podChanMap, quitChanMap, quitClosed, wpod, wpc,
                 hookArg, fsVars, retrying, attHalt, attLaunched, attEqual,
                 attInstallFailed>>

\* ------------------------------------------------ Pod interface calls
\* Pod.CurrentManifest: NoCurrentManifest when os.Stat says the file does not
\* exist, else whatever ManifestFromPath makes of the file's content.
CurrentManifest(file) ==
  IF file.st = "absent" THEN [err |-> "NoCurrentManifest", m |-> ZeroManifest]
  ELSE IF file.st = "partial" THEN [err |-> "ParseError", m |-> ZeroManifest]
  ELSE [err |-> "nil", m |-> file.m]

\* os.IsNotExist: true of the system's "no such file" errors only.
\* NoCurrentManifest is a plain fmt.Errorf value.
IsNotExist(err) == err = "ENOENT"

\* Faulty variant: the fingerprints are never found equal.
ShaDiffers_Always(cur, new) == TRUE

\* `currentSHA != newSHA`
ShaDiffers(cur, new) == SHA(cur) # SHA(new)

\* The results Pod.Halt can give, with whether the pod's services stopped:
\* an error building the launchables, a launchable that did not stop, or
\* every launchable stopped (disable errors are warnings).
HaltOutcomes ==
  { [ok |-> FALSE, err |-> "launchables", stopped |-> FALSE],
    [ok |-> FALSE, err |-> "nil", stopped |-> FALSE],
    [ok |-> TRUE, err |-> "nil", stopped |-> TRUE] }

\* The results Pod.Launch(m) can give, with the current manifest file and
\* the running version it leaves behind: an error before anything is written;
\* a manifest write that failed (file reverted, left partial, or written but
\* not chowned); a failed symlink flip after the write; some service that did
\* not start; no start error (every attempted service started, and success
\* stays true when every launchable was skipped).  WriteCurrentManifest
\* returning nil after a successful revert lets Launch go on with the old
\* file in place.
LaunchOutcomes(file, run, m) ==
  { [ok |-> FALSE, err |-> "launchables", file |-> file, run |-> run] }
  \cup { [ok |-> FALSE, err |-> "write", file |-> f, run |-> run] :
           f \in {file, PartialFile, FileOf(m)} }
  \cup { [ok |-> FALSE, err |-> "symlink", file |-> f, run |-> run] :
           f \in {file, FileOf(m)} }
  \cup { [ok |-> FALSE, err |-> "nil", file |-> f, run |-> r] :
           f \in {file, FileOf(m)}, r \in {run, m.ver} }
  \cup { [ok |-> TRUE, err |-> "nil", file |-> f, run |-> r] :
           f \in {file, FileOf(m)}, r \in {run, m.ver} }

\* ------------------------------------------------------------ pod worker
\* The main loop is blocked sending on this worker's channel.
SenderReady(w) == mainPc = "send" /\ podChanMap[mainManifest.id] = w

\* handlePods' select when no manifest is ready on podChan: `case <-quit`
\* returns; otherwise `default` starts an attempt if there is work.
WorkerSelect(w) ==
  /\ wpc[w] = "select"
  /\ IF quitClosed[w]
       THEN wpc' = [wpc EXCEPT ![w] = "exited"]
       ELSE /\ ~SenderReady(w)
            /\ working[w]
            /\ wpc' = [wpc EXCEPT ![w] = "install"]
  /\ UNCHANGED <<podVars, lifeVars, storeVars>>
  /\ UNCHANGED <<envVars, mainVars, wpod, manifestToLaunch, working, hookArg,
                 fsVars, histVars>>

\* Faulty variant: the error of Install is not looked at.
AfterInstall_Proceed(ok) == "curman"

\* `if err != nil { return false }` after pod.Install: where the worker goes.
AfterInstall(ok) == IF ok THEN "curman" ELSE "sleep"

\* installAndLaunchPod: `err := pod.Install(newManifest)`; an error aborts
\* the attempt (return false), and handlePods then sleeps.
WorkerInstall(w) ==
  /\ wpc[w] = "install"
  /\ \E ok \in BOOLEAN :
       /\ wpc' = [wpc EXCEPT ![w] = AfterInstall(ok)]
       /\ attInstallFailed' = [attInstallFailed EXCEPT ![w] = ~ok]
  /\ UNCHANGED <<podVars, lifeVars, storeVars>>
  /\ UNCHANGED <<envVars, mainVars, wpod, manifestToLaunch, working, hookArg,
                 fsVars, lastRecv, retrying, superseded, attHalt, attLaunched,
                 attEqual>>

\* installAndLaunchPod from `pod.CurrentManifest()` to the Halt call or the
\* return: Launch only on an os.IsNotExist error, retry on any other error,
\* Halt next when the fingerprints differ, return true when they are equal.
WorkerCurrentManifest(w) ==
  /\ wpc[w] = "curman"
  /\ LET new == manifestToLaunch[w]
         p == new.id
         cm == CurrentManifest(disk[p])
     IN /\ IF cm.err # "nil"
             THEN IF IsNotExist(cm.err)
                    THEN \E o \in LaunchOutcomes(disk[p], running[p], new) :
                           /\ disk' = [disk EXCEPT ![p] = o.file]
                           /\ running' = [running EXCEPT ![p] = o.run]
                           /\ attLaunched' = [attLaunched EXCEPT ![w] = TRUE]
                           /\ wpc' = [wpc EXCEPT ![w] =
                                  IF o.err # "nil" \/ ~o.ok THEN "sleep" ELSE "applied"]
                    ELSE /\ wpc' = [wpc EXCEPT ![w] = "sleep"]
                         /\ UNCHANGED <<disk, running, attLaunched>>
             ELSE /\ wpc' = [wpc EXCEPT ![w] =
                        IF ShaDiffers(cm.m, new) THEN "halt" ELSE "applied"]
                  /\ UNCHANGED <<disk, running, attLaunched>>
        /\ attEqual' = [attEqual EXCEPT
               ![w] = cm.err = "nil" /\ SHA(cm.m) = SHA(new)]
  /\ UNCHANGED <<podVars, lifeVars, storeVars>>
  /\ UNCHANGED <<envVars, mainVars, wpod, manifestToLaunch, working, hookArg,
                 lastRecv, retrying, superseded, attHalt, attInstallFailed>>

\* installAndLaunchPod: `ok, err := pod.Halt()`; on an error or !ok the
\* attempt is aborted, else the function falls through to `return true`.
WorkerHalt(w) ==
  /\ wpc[w] = "halt"
  /\ LET p == manifestToLaunch[w].id
     IN \E o \in HaltOutcomes :
          /\ running' = [running EXCEPT ![p] = IF o.stopped THEN 0 ELSE @]
          /\ attHalt' = [attHalt EXCEPT ![w] = IF o.stopped THEN "stopped" ELSE "failed"]
          /\ wpc' = [wpc EXCEPT ![w] =
                 IF o.err # "nil" \/ ~o.ok THEN "sleep" ELSE "applied"]
  /\ UNCHANGED <<podVars, lifeVars, storeVars>>
  /\ UNCHANGED <<envVars, mainVars, wpod, manifestToLaunch, working, hookArg,
                 disk, lastRecv, retrying, superseded, attLaunched, attEqual,
                 attInstallFailed>>

\* handlePods after installAndLaunchPod returned true: the local manifest is
\* zeroed, working is cleared, and the "after" hooks run on &manifestToLaunch
\* (a hook error is printed).
WorkerApplied(w) ==
  /\ wpc[w] = "applied"
  /\ manifestToLaunch' = [manifestToLaunch EXCEPT ![w] = ZeroManifest]
  /\ working' = [working EXCEPT ![w] = FALSE]
  /\ hookArg' = [hookArg EXCEPT ![w] = manifestToLaunch'[w]]
  /\ lastRecv' = [lastRecv EXCEPT ![w] = ZeroManifest]
  /\ retrying' = [retrying EXCEPT ![w] = FALSE]
  /\ superseded' = [superseded EXCEPT ![w] = FALSE]
  /\ attHalt' = [attHalt EXCEPT ![w] = "no"]
  /\ attLaunched' = [attLaunched EXCEPT ![w] = FALSE]
  /\ attEqual' = [attEqual EXCEPT ![w] = FALSE]
  /\ wpc' = [wpc EXCEPT ![w] = "select"]
  /\ UNCHANGED <<podVars, lifeVars, storeVars>>
  /\ UNCHANGED <<envVars, mainVars, wpod, fsVars, attInstallFailed>>

\* handlePods after installAndLaunchPod returned false: time.Sleep(1s) ends.
WorkerWake(w) ==
  /\ wpc[w] = "sleep"
  /\ wpc' = [wpc EXCEPT ![w] = "select"]
  /\ retrying' = [retrying EXCEPT ![w] = TRUE]
  /\ attHalt' = [attHalt EXCEPT ![w] = "no"]
  /\ attLaunched' = [attLaunched EXCEPT ![w] = FALSE]
  /\ attEqual' = [attEqual EXCEPT ![w] = FALSE]
  /\ attInstallFailed' = [attInstallFailed EXCEPT ![w] = FALSE]
  /\ UNCHANGED <<podVars, lifeVars, storeVars>>
  /\ UNCHANGED <<envVars, mainVars, wpod, manifestToLaunch, working, hookArg,
                 fsVars, lastRecv, superseded>>

\* --------------------------------------------- pod lifecycle engine
\* The pod whose directory SpecPod follows.
PodId == "web"

\* The default of the experimental_opencontainer flag.
ExperimentalOpencontainer == FALSE

\* Faulty variant: a launchable is built whatever the type tag says.
SupportedType_AnyType(t) == TRUE

\* getLaunchable: the launchable types it builds a launchable for.
SupportedType(t) ==
  t = "hoist" \/ (ExperimentalOpencontainer /\ t = "opencontainer")

\* Pod.Launchables returns an error when getLaunchable refuses a stanza.
LaunchablesErr(m) == \E i \in DOMAIN m.types : ~SupportedType(m.types[i])

\* The manifests handed to Launch: every content version of the pod, and one
\* whose second launchable has a type getLaunchable does not know.
UnsupportedManifest ==
  [id |-> PodId, ver |-> MaxVer,
   types |-> [i \in LaunchableIdx |-> IF i = 1 THEN "hoist" ELSE "docker"]]
LaunchInputs == {Manifest(PodId, v) : v \in Versions} \cup {UnsupportedManifest}

NoRet == [ok |-> FALSE, err |-> "pending"]

\* revertCurrentManifest: rename the staged copy over the current manifest
\* when the staged copy exists, else return os.Stat's error.
Revert(last, cur, renameOk) ==
  IF last.st # "absent"
    THEN IF renameOk
           THEN [err |-> "nil", cur |-> last, last |-> NoFile]
           ELSE [err |-> "rename", cur |-> cur, last |-> last]
    ELSE [err |-> "ENOENT", cur |-> cur, last |-> last]

\* Launch's `defer os.RemoveAll(oldManifestTemp)`: the staged copy is removed
\* when WriteCurrentManifest returned its path, which it does only on success
\* (every other return gives "").
AfterDefer(last) == IF wcmFail = "none" THEN NoFile ELSE last

\* Launch is called with manifest m: pod.Launchables(manifest) and its early
\* return, then on to WriteCurrentManifest.  (The caller's bookkeeping of the
\* call is left to the specification that uses the action.)
LaunchCall(m) ==
  /\ lpc \in {"idle", "done"}
  /\ lm' = m
  /\ preFile' = pfile
  /\ wcmFail' = "none"
  /\ reverted' = "n/a"
  /\ ops' = {}
  /\ successes' = << >>
  /\ startOuts' = << >>
  /\ lsuccess' = TRUE
  /\ li' = 1
  /\ IF LaunchablesErr(m)
       THEN /\ lpc' = "done"
            /\ lerr' = "unsupported"
            /\ lret' = [ok |-> FALSE, err |-> "unsupported"]
       ELSE /\ lpc' = "tempdir"
            /\ lerr' = "nil"
            /\ lret' = NoRet
  /\ UNCHANGED <<pfile, lastFile, symlink, sbConfig, started>>
  /\ UNCHANGED <<prepVars, storeVars>>

\* WriteCurrentManifest: ioutil.TempDir; a fresh directory holds no
\* last_manifest.yaml.
WcmTempDir ==
  /\ lpc = "tempdir"
  /\ \E ok \in BOOLEAN :
       IF ok
         THEN /\ lastFile' = NoFile
              /\ lpc' = "stage"
              /\ UNCHANGED <<lerr, wcmFail>>
         ELSE /\ lerr' = "tempdir"
              /\ wcmFail' = "tempdir"
              /\ lpc' = "wcmret"
              /\ UNCHANGED lastFile
  /\ UNCHANGED <<pfile, lm, successes, lsuccess, li, symlink, sbConfig, started,
                 lret, preFile, reverted, ops>>
  /\ UNCHANGED startOuts
  /\ UNCHANGED <<prepVars, lifeVars, storeVars>>

\* WriteCurrentManifest: if os.Stat finds the current manifest, uri.URICopy
\* copies it to last_manifest.yaml; a copy error returns.
WcmStage ==
  /\ lpc = "stage"
  /\ IF pfile.st # "absent"
       THEN \E ok \in BOOLEAN :
              IF ok
                THEN /\ lastFile' = pfile
                     /\ lpc' = "open"
                     /\ UNCHANGED <<lerr, wcmFail>>
                ELSE /\ lerr' = "copy"
                     /\ wcmFail' = "copy"
                     /\ lpc' = "wcmret"
                     /\ UNCHANGED lastFile
       ELSE /\ lpc' = "open"
            /\ UNCHANGED <<lastFile, lerr, wcmFail>>
  /\ UNCHANGED <<pfile, lm, successes, lsuccess, li, symlink, sbConfig, started,
                 lret, preFile, reverted, ops>>
  /\ UNCHANGED startOuts
  /\ UNCHANGED <<prepVars, lifeVars, storeVars>>

\* WriteCurrentManifest: os.OpenFile(current, O_WRONLY|O_CREATE|O_TRUNC): the
\* file is created or emptied in place.  On an error the function reverts and
\* returns the error of the revert.
WcmOpen ==
  /\ lpc = "open"
  /\ \E ok \in BOOLEAN, renameOk \in BOOLEAN :
       IF ok
         THEN /\ pfile' = PartialFile
              /\ lpc' = "write"
              /\ UNCHANGED <<lastFile, lerr, wcmFail, reverted>>
         ELSE LET r == Revert(lastFile, pfile, renameOk)
              IN /\ pfile' = r.cur
                 /\ lastFile' = r.last
                 /\ lerr' = r.err
                 /\ reverted' = IF r.err = "nil" THEN "ok" ELSE "failed"
                 /\ wcmFail' = "open"
                 /\ lpc' = "wcmret"
  /\ UNCHANGED <<lm, successes, lsuccess, li, symlink, sbConfig, started, lret,
                 preFile, ops>>
  /\ UNCHANGED startOuts
  /\ UNCHANGED <<prepVars, lifeVars, storeVars>>

\* WriteCurrentManifest: manifest.Write(f).  On an error the function reverts
\* and returns the error of the revert.
WcmWrite ==
  /\ lpc = "write"
  /\ \E ok \in BOOLEAN, renameOk \in BOOLEAN :
       IF ok
         THEN /\ pfile' = FileOf(lm)
              /\ lpc' = "ids"
              /\ UNCHANGED <<lastFile, lerr, wcmFail, reverted>>
         ELSE LET r == Revert(lastFile, pfile, renameOk)
              IN /\ pfile' = r.cur
                 /\ lastFile' = r.last
                 /\ lerr' = r.err
                 /\ reverted' = IF r.err = "nil" THEN "ok" ELSE "failed"
                 /\ wcmFail' = "write"
                 /\ lpc' = "wcmret"
  /\ UNCHANGED <<lm, successes, lsuccess, li, symlink, sbConfig, started, lret,
                 preFile, ops>>
  /\ UNCHANGED startOuts
  /\ UNCHANGED <<prepVars, lifeVars, storeVars>>

\* WriteCurrentManifest: user.IDs(manifest.RunAsUser()); an error returns
\* without a revert ("the write was still successful").
WcmIDs ==
  /\ lpc = "ids"
  /\ \E ok \in BOOLEAN :
       IF ok
         THEN /\ lpc' = "chown"
              /\ UNCHANGED <<lerr, wcmFail>>
         ELSE /\ lerr' = "ids"
              /\ wcmFail' = "ids"
              /\ lpc' = "wcmret"
  /\ UNCHANGED <<pfile, lastFile, lm, successes, lsuccess, li, symlink, sbConfig,
                 started, lret, preFile, reverted, ops>>
  /\ UNCHANGED startOuts
  /\ UNCHANGED <<prepVars, lifeVars, storeVars>>

\* WriteCurrentManifest: f.Chown(uid, gid); an error returns without a
\* revert; otherwise the function returns lastManifest, nil.
WcmChown ==
  /\ lpc = "chown"
  /\ \E ok \in BOOLEAN :
       IF ok
         THEN UNCHANGED <<lerr, wcmFail>>
         ELSE /\ lerr' = "chown"
              /\ wcmFail' = "chown"
  /\ lpc' = "wcmret"
  /\ UNCHANGED <<pfile, lastFile, lm, successes, lsuccess, li, symlink, sbConfig,
                 started, lret, preFile, reverted, ops>>
  /\ UNCHANGED startOuts
  /\ UNCHANGED <<prepVars, lifeVars, storeVars>>

\* Launch after WriteCurrentManifest returned: `if err != nil { return false,
\* err }`, else on to the first loop.
LaunchAfterWrite ==
  /\ lpc = "wcmret"
  /\ IF lerr # "nil"
       THEN /\ lpc' = "done"
            /\ lret' = [ok |-> FALSE, err |-> lerr]
            /\ lastFile' = AfterDefer(lastFile)
       ELSE /\ lpc' = "makecurrent"
            /\ UNCHANGED <<lret, lastFile>>
  /\ li' = 1
  /\ UNCHANGED <<pfile, lm, lerr, successes, lsuccess, symlink, sbConfig, started,
                 preFile, wcmFail, reverted, ops>>
  /\ UNCHANGED startOuts
  /\ UNCHANGED <<prepVars, lifeVars, storeVars>>

\* Launch, first loop: launchable.MakeCurrent() flips the `current` symlink;
\* an error returns (false, err).
LaunchMakeCurrent ==
  /\ lpc = "makecurrent"
  /\ ops' = ops \cup {"MakeCurrent"}
  /\ \E ok \in BOOLEAN :
       IF ok
         THEN /\ symlink' = [symlink EXCEPT ![li] = lm.ver]
              /\ lpc' = "postactivate"
              /\ UNCHANGED <<lerr, lret, lastFile>>
         ELSE /\ lerr' = "symlink"
              /\ lret' = [ok |-> FALSE, err |-> "symlink"]
              /\ lastFile' = AfterDefer(lastFile)
              /\ lpc' = "done"
              /\ UNCHANGED symlink
  /\ UNCHANGED <<pfile, lm, successes, lsuccess, li, sbConfig, started, preFile,
                 wcmFail, reverted>>
  /\ UNCHANGED startOuts
  /\ UNCHANGED <<prepVars, lifeVars, storeVars>>

\* Launch, first loop: launchable.PostActivate(); its outcome is appended to
\* successes; after the last launchable comes buildRunitServices.
LaunchPostActivate ==
  /\ lpc = "postactivate"
  /\ ops' = ops \cup {"PostActivate"}
  /\ \E ok \in BOOLEAN : successes' = Append(successes, ok)
  /\ IF li < Len(lm.types)
       THEN /\ li' = li + 1
            /\ lpc' = "makecurrent"
       ELSE /\ li' = 1
            /\ lpc' = "build"
  /\ UNCHANGED <<pfile, lastFile, lm, lerr, lsuccess, symlink, sbConfig, started,
                 lret, preFile, wcmFail, reverted>>
  /\ UNCHANGED startOuts
  /\ UNCHANGED <<prepVars, lifeVars, storeVars>>

\* Launch: `err = pod.buildRunitServices(...)`: a duplicate executable name
\* returns before Activate; Activate may fail; Prune may fail after it.  The
\* error is stored in err and Launch goes on to the second loop.
LaunchBuild ==
  /\ lpc = "build"
  /\ \E out \in {"nil", "duplicate", "activate", "prune"} :
       /\ lerr' = out
       /\ ops' = IF out = "duplicate" THEN ops ELSE ops \cup {"Activate"}
       /\ sbConfig' = IF out \in {"nil", "prune"} THEN lm.ver ELSE sbConfig
  /\ lsuccess' = TRUE
  /\ lpc' = "start"
  /\ UNCHANGED <<pfile, lastFile, lm, successes, li, symlink, started, lret,
                 preFile, wcmFail, reverted>>
  /\ UNCHANGED startOuts
  /\ UNCHANGED <<prepVars, lifeVars, storeVars>>

\* Faulty variant: every launchable is started, whatever PostActivate gave.
SkipStart_Never(postActivated) == FALSE

\* `if !successes[i] { continue }`
SkipStart(postActivated) == ~postActivated

\* Faulty variant: an EnableError clears success like any other error.
StartSuccess_EnableFails(success, out) == IF out = "nil" THEN success ELSE FALSE

\* The `switch err.(type)` after launchable.Launch: nil and launch.EnableError
\* leave success alone, every other error (launch.StartError) clears it.
StartSuccess(success, out) == IF out \in {"nil", "enable"} THEN success ELSE FALSE

\* Launch, second loop: a launchable whose PostActivate failed is skipped;
\* else launchable.Launch starts and enables it: an EnableError is a warning,
\* any other error clears success.  After the last launchable Launch returns
\* (success, nil).
LaunchStart ==
  /\ lpc = "start"
  /\ IF SkipStart(successes[li])
       THEN /\ startOuts' = Append(startOuts, "skip")
            /\ UNCHANGED <<lerr, lsuccess, started, ops>>
       ELSE \E out \in {"nil", "enable", "start"} :
              /\ lerr' = out
              /\ ops' = ops \cup {"Start"}
              /\ startOuts' = Append(startOuts, out)
              /\ started' = [started EXCEPT ![li] = IF out = "start" THEN @ ELSE lm.ver]
              /\ lsuccess' = StartSuccess(lsuccess, out)
  /\ IF li < Len(lm.types)
       THEN /\ li' = li + 1
            /\ UNCHANGED <<lpc, lret, lastFile>>
       ELSE /\ lpc' = "done"
            /\ lret' = [ok |-> lsuccess', err |-> "nil"]
            /\ lastFile' = AfterDefer(lastFile)
            /\ UNCHANGED li
  /\ UNCHANGED <<pfile, lm, successes, symlink, sbConfig, preFile, wcmFail,
                 reverted>>
  /\ UNCHANGED <<prepVars, lifeVars, storeVars>>

\* ------------------------------------ Install, Halt and Uninstall calls
\* The manifests handed to Install and Halt: the newest content version of
\* the pod, and the one with a launchable type getLaunchable does not know.
LifeInputs == {Manifest(PodId, MaxVer), UnsupportedManifest}

\* The part of the pod a call can leave behind: the current manifest, the
\* launchables' `current` symlinks, the installed artifacts, the config and
\* env files, the supervisor config and the supervised services.
PodFiles ==
  [file |-> pfile, symlink |-> symlink, installed |-> installed,
   config |-> config, sbConfig |-> sbConfig, started |-> started]

\* The same of a pod that has no directory.
NoPodFiles ==
  [file |-> NoFile, symlink |-> [i \in LaunchableIdx |-> 0],
   installed |-> [i \in LaunchableIdx |-> 0], config |-> 0, sbConfig |-> 0,
   started |-> [i \in LaunchableIdx |-> 0]]

\* No call is running.
NoCall == opc \in {"idle", "done"} /\ lpc \in {"idle", "done"}

\* The call returns (ok, err).
Return(ok, err) ==
  /\ opc' = "done"
  /\ oret' = [ok |-> ok, err |-> err]

\* A call of `method` with manifest m begins.
Begin(method, m) ==
  /\ NoCall
  /\ op' = method
  /\ om' = m
  /\ oi' = 1
  /\ osuccess' = TRUE
  /\ pre' = PodFiles
  /\ haltOuts' = << >>
  /\ steps' = << >>

\* Launch called with manifest m, as a call of this group: Launch's first
\* step, and its return when that step returns.
LifeLaunch(m) ==
  /\ Begin("Launch", m)
  /\ LaunchCall(m)
  /\ IF lpc' = "done" THEN Return(lret'.ok, lret'.err)
                      ELSE opc' = "launch" /\ oret' = NoRet
  /\ UNCHANGED <<homeDir, installed, config>>

\* Install is called with manifest m: user.IDs(manifest.RunAsUser()); an
\* error returns.
InstallCall(m) ==
  /\ Begin("Install", m)
  /\ \E ok \in BOOLEAN :
       IF ok THEN opc' = "mkdir" /\ oret' = NoRet
             ELSE Return(FALSE, "ids")
  /\ UNCHANGED <<homeDir, installed, config>>
  /\ UNCHANGED <<prepVars, podVars, storeVars>>

\* Install: util.MkdirChownAll(podHome, uid, gid, 0755); an error returns.
InstallMkdir ==
  /\ opc = "mkdir"
  /\ \E ok \in BOOLEAN :
       IF ok THEN /\ homeDir' = TRUE
                  /\ opc' = "launchables"
                  /\ UNCHANGED oret
             ELSE /\ Return(FALSE, "mkdir")
                  /\ UNCHANGED homeDir
  /\ UNCHANGED <<installed, config, op, om, oi, osuccess, pre, haltOuts, steps>>
  /\ UNCHANGED <<prepVars, podVars, storeVars>>

\* Install: pod.Launchables(manifest); an error returns.
InstallLaunchables ==
  /\ opc = "launchables"
  /\ op = "Install"
  /\ IF LaunchablesErr(om)
       THEN Return(FALSE, "unsupported")
       ELSE opc' = "artifact" /\ UNCHANGED oret
  /\ UNCHANGED <<homeDir, installed, config, op, om, oi, osuccess, pre, haltOuts,
                 steps>>
  /\ UNCHANGED <<prepVars, podVars, storeVars>>

\* Install, the loop: launchable.Install() fetches and unpacks the artifact;
\* an error returns; after the last launchable comes setupConfig.
InstallArtifact ==
  /\ opc = "artifact"
  /\ \E ok \in BOOLEAN :
       IF ok
         THEN /\ installed' = [installed EXCEPT ![oi] = om.ver]
              /\ IF oi < Len(om.types)
                   THEN oi' = oi + 1 /\ UNCHANGED opc
                   ELSE oi' = 1 /\ opc' = "config"
              /\ UNCHANGED oret
         ELSE /\ Return(FALSE, "install")
              /\ UNCHANGED <<installed, oi>>
  /\ UNCHANGED <<homeDir, config, op, om, osuccess, pre, haltOuts, steps>>
  /\ UNCHANGED <<prepVars, podVars, storeVars>>

\* Install: pod.setupConfig(manifest, launchables) writes the config and env
\* files; Install returns its error, or nil.
InstallConfig ==
  /\ opc = "config"
  /\ \E ok \in BOOLEAN :
       IF ok THEN config' = om.ver /\ Return(TRUE, "nil")
             ELSE UNCHANGED config /\ Return(FALSE, "config")
  /\ UNCHANGED <<homeDir, installed, op, om, oi, osuccess, pre, haltOuts, steps>>
  /\ UNCHANGED <<prepVars, podVars, storeVars>>

\* launchable.Halt on a launchable whose services run version v: nil stops
\* them, a launch.DisableError may or may not have stopped them, any other
\* error (launch.StopError) leaves them running.
HaltResults(v) ==
  { [err |-> "nil", run |-> 0], [err |-> "disable", run |-> 0],
    [err |-> "disable", run |-> v], [err |-> "stop", run |-> v] }

\* Faulty variant: a DisableError clears success like any other error.
HaltSuccess_DisableFails(success, err) == IF err = "nil" THEN success ELSE FALSE

\* The `switch err.(type)` after launchable.Halt: nil and launch.DisableError
\* leave success alone, every other error clears it.
HaltSuccess(success, err) == IF err \in {"nil", "disable"} THEN success ELSE FALSE

\* Halt is called with manifest m: pod.Launchables(manifest); an error
\* returns (false, err).
HaltCall(m) ==
  /\ Begin("Halt", m)
  /\ IF LaunchablesErr(m)
       THEN Return(FALSE, "unsupported")
       ELSE opc' = "halt" /\ oret' = NoRet
  /\ UNCHANGED <<homeDir, installed, config>>
  /\ UNCHANGED <<prepVars, podVars, storeVars>>

\* Halt, the loop: launchable.Halt(...) and the switch on its error; after
\* the last launchable Halt returns (success, nil).
HaltLaunchable ==
  /\ opc = "halt"
  /\ \E r \in HaltResults(started[oi]) :
       /\ started' = [started EXCEPT ![oi] = r.run]
       /\ haltOuts' = Append(haltOuts, r.err)
       /\ osuccess' = HaltSuccess(osuccess, r.err)
  /\ IF oi < Len(om.types)
       THEN oi' = oi + 1 /\ UNCHANGED <<opc, oret>>
       ELSE oi' = 1 /\ Return(osuccess', "nil")
  /\ UNCHANGED <<homeDir, installed, config, op, om, pre, steps>>
  /\ UNCHANGED <<pfile, lastFile, lpc, lm, lerr, successes, lsuccess, li, symlink,
                 sbConfig, lret, preFile, wcmFail, reverted, ops, startOuts>>
  /\ UNCHANGED <<prepVars, storeVars>>

\* Uninstall is called: pod.CurrentManifest() and pod.Launchables of what it
\* loaded; an error of either returns.
UninstallCall ==
  LET cm == CurrentManifest(pfile)
  IN /\ Begin("Uninstall", cm.m)
     /\ IF cm.err # "nil"
          THEN Return(FALSE, cm.err)
          ELSE IF LaunchablesErr(cm.m)
                 THEN Return(FALSE, "unsupported")
                 ELSE opc' = "uhalt" /\ oret' = NoRet
     /\ UNCHANGED <<homeDir, installed, config>>
     /\ UNCHANGED <<prepVars, podVars, storeVars>>

\* Uninstall, the loop: launchable.Halt(...); its error is dropped ("log and
\* continue").
UninstallHalt ==
  /\ opc = "uhalt"
  /\ \E r \in HaltResults(started[oi]) :
       /\ started' = [started EXCEPT ![oi] = r.run]
       /\ haltOuts' = Append(haltOuts, r.err)
  /\ steps' = IF oi = 1 THEN Append(steps, "halt") ELSE steps
  /\ IF oi < Len(om.types)
       THEN oi' = oi + 1 /\ UNCHANGED opc
       ELSE oi' = 1 /\ opc' = "rmconfig"
  /\ UNCHANGED <<homeDir, installed, config, op, om, osuccess, oret, pre>>
  /\ UNCHANGED <<pfile, lastFile, lpc, lm, lerr, successes, lsuccess, li, symlink,
                 sbConfig, lret, preFile, wcmFail, reverted, ops, startOuts>>
  /\ UNCHANGED <<prepVars, storeVars>>

\* os.Remove of the pod's servicebuilder config: "no such file" when there is
\* none, else removed or some other error.
RemoveConfigResults(sb) ==
  IF sb = 0 THEN { [err |-> "ENOENT", sb |-> 0] }
            ELSE { [err |-> "nil", sb |-> 0], [err |-> "remove", sb |-> sb] }

\* Uninstall: os.Remove(<ConfigRoot>/<pod id>.yaml); an error other than "no
\* such file" returns.
UninstallRemoveConfig ==
  /\ opc = "rmconfig"
  /\ steps' = Append(steps, "removeConfig")
  /\ \E r \in RemoveConfigResults(sbConfig) :
       /\ sbConfig' = r.sb
       /\ IF r.err # "nil" /\ ~IsNotExist(r.err)
            THEN Return(FALSE, r.err)
            ELSE opc' = "prune" /\ UNCHANGED oret
  /\ UNCHANGED <<homeDir, installed, config, op, om, oi, osuccess, pre, haltOuts>>
  /\ UNCHANGED <<pfile, lastFile, lpc, lm, lerr, successes, lsuccess, li, symlink,
                 started, lret, preFile, wcmFail, reverted, ops, startOuts>>
  /\ UNCHANGED <<prepVars, storeVars>>

\* Uninstall: pod.ServiceBuilder.Prune() removes the services no config
\* names any more; an error returns.
UninstallPrune ==
  /\ opc = "prune"
  /\ steps' = Append(steps, "prune")
  /\ \E ok \in BOOLEAN :
       IF ok
         THEN /\ started' = IF sbConfig = 0 THEN [i \in LaunchableIdx |-> 0]
                                            ELSE started
              /\ opc' = "rmall"
              /\ UNCHANGED oret
         ELSE /\ Return(FALSE, "prune")
              /\ UNCHANGED started
  /\ UNCHANGED <<homeDir, installed, config, op, om, oi, osuccess, pre, haltOuts>>
  /\ UNCHANGED <<pfile, lastFile, lpc, lm, lerr, successes, lsuccess, li, symlink,
                 sbConfig, lret, preFile, wcmFail, reverted, ops, startOuts>>
  /\ UNCHANGED <<prepVars, storeVars>>

\* Uninstall: `return os.RemoveAll(pod.path)`.
UninstallRemoveAll ==
  /\ opc = "rmall"
  /\ steps' = Append(steps, "removeAll")
  /\ \E ok \in BOOLEAN :
       IF ok
         THEN /\ pfile' = NoFile
              /\ symlink' = [i \in LaunchableIdx |-> 0]
              /\ installed' = [i \in LaunchableIdx |-> 0]
              /\ config' = 0
              /\ homeDir' = FALSE
              /\ Return(TRUE, "nil")
         ELSE /\ Return(FALSE, "removeall")
              /\ UNCHANGED <<pfile, symlink, installed, config, homeDir>>
  /\ UNCHANGED <<op, om, oi, osuccess, pre, haltOuts>>
  /\ UNCHANGED <<lastFile, lpc, lm, lerr, successes, lsuccess, li, sbConfig,
                 started, lret, preFile, wcmFail, reverted, ops, startOuts>>
  /\ UNCHANGED <<prepVars, storeVars>>

\* ------------------------------------------------------- the roll store
\* The replication controllers, the sessions and the callers of the store.
RCIds == {"rcA", "rcB"}
Sessions == {"s1", "s2"}
Clients == {"c1", "c2"}

\* rollf.Update: two Updates with the same new RC and different contents.
Update(old, new, desired, minimum) ==
  [OldRC |-> old, NewRC |-> new, DesiredReplicas |-> desired,
   MinimumReplicas |-> minimum]
NoUpdate == Update("", "", 0, 0)
Updates == { Update("rcA", "rcB", 2, 1), Update("", "rcB", 1, 1) }

\* A KV entry of the roll tree: its modify index (0: there is no entry) and
\* its value.
NoEntry == [idx |-> 0, val |-> NoUpdate]

\* The KV store's CAS(key, value, idx): applied only if the entry's modify
\* index is idx, and then the entry gets the store's next index.
KVCas(entry, value, idx, next) ==
  IF entry.idx = idx THEN [ok |-> TRUE, entry |-> [idx |-> next, val |-> value]]
                     ELSE [ok |-> FALSE, entry |-> entry]

\* The KV store's Acquire(key, session): granted only if no session or the
\* same session holds the key.
KVAcquire(hs, session) ==
  IF hs \subseteq {session} THEN [ok |-> TRUE, hs |-> hs \cup {session}]
                            ELSE [ok |-> FALSE, hs |-> hs]

NoArg == [id |-> "", u |-> NoUpdate, session |-> ""]
NoRes == [ok |-> FALSE, err |-> "pending"]
NoServed == [entry |-> NoEntry, hs |-> {}, kvErr |-> FALSE]

\* Client c calls `method` with argument a: the request is on its way.
StoreCall(c, method, a) ==
  /\ cst[c] \in {"idle", "done"}
  /\ cop' = [cop EXCEPT ![c] = method]
  /\ cst' = [cst EXCEPT ![c] = "sent"]
  /\ carg' = [carg EXCEPT ![c] = a]
  /\ cres' = [cres EXCEPT ![c] = NoRes]
  /\ cpre' = [cpre EXCEPT ![c] = NoServed]
  /\ cpost' = [cpost EXCEPT ![c] = NoServed]
  /\ UNCHANGED <<kvIndex, rolls, holders, dead, putWins>>
  /\ UNCHANGED <<prepVars, podVars, lifeVars, healthVars, watchVars>>

\* Faulty variant: a refused CAS is not reported.
PutResult_IgnoresRefusal(success, kvErr) == IF kvErr THEN "kv" ELSE "nil"

\* Put after s.kv.CAS: a KVError for an error of the call, an "already
\* exists" error for a refused CAS, else nil.
PutResult(success, kvErr) ==
  IF kvErr THEN "kv" ELSE IF ~success THEN "exists" ELSE "nil"

\* consulStore.Put(u) is called.
PutCall(c, u) == StoreCall(c, "Put", [NoArg EXCEPT !.id = u.NewRC, !.u = u])

\* consulStore.Put: s.kv.CAS of the pair (rolls/<u.NewRC>, u, ModifyIndex 0)
\* is served, or fails, and Put returns.
PutReturn(c) ==
  /\ cst[c] = "sent"
  /\ cop[c] = "Put"
  /\ LET id == carg[c].id
     IN \E kvErr \in BOOLEAN :
          LET r == IF kvErr THEN [ok |-> FALSE, entry |-> rolls[id]]
                            ELSE KVCas(rolls[id], carg[c].u, 0, kvIndex + 1)
              res == PutResult(r.ok, kvErr)
          IN /\ r.ok => kvIndex < MaxIndex
             /\ rolls' = [rolls EXCEPT ![id] = r.entry]
             /\ kvIndex' = IF r.ok THEN kvIndex + 1 ELSE kvIndex
             /\ cres' = [cres EXCEPT ![c] = [ok |-> res = "nil", err |-> res]]
             /\ cpre' = [cpre EXCEPT ![c] = [NoServed EXCEPT !.entry = rolls[id]]]
             /\ cpost' = [cpost EXCEPT ![c] =
                    [NoServed EXCEPT !.entry = r.entry, !.kvErr = kvErr]]
             /\ putWins' = [putWins EXCEPT ![id] = IF res = "nil" THEN @ + 1 ELSE @]
  /\ cst' = [cst EXCEPT ![c] = "done"]
  /\ UNCHANGED <<holders, dead, cop, carg>>
  /\ UNCHANGED <<prepVars, podVars, lifeVars, healthVars, watchVars>>

\* consulStore.Delete(id) is called.
DeleteCall(c, id) == StoreCall(c, "Delete", [NoArg EXCEPT !.id = id])

\* consulStore.Delete: s.kv.Delete(rolls/<id>) is served, or fails, and
\* Delete returns.
DeleteReturn(c) ==
  /\ cst[c] = "sent"
  /\ cop[c] = "Delete"
  /\ LET id == carg[c].id
     IN \E kvErr \in BOOLEAN :
          LET gone == ~kvErr /\ rolls[id].idx # 0
          IN /\ gone => kvIndex < MaxIndex
             /\ rolls' = [rolls EXCEPT ![id] = IF kvErr THEN @ ELSE NoEntry]
             /\ kvIndex' = IF gone THEN kvIndex + 1 ELSE kvIndex
             /\ putWins' = [putWins EXCEPT ![id] = IF kvErr THEN @ ELSE 0]
             /\ cres' = [cres EXCEPT ![c] =
                    [ok |-> ~kvErr, err |-> IF kvErr THEN "kv" ELSE "nil"]]
             /\ cpre' = [cpre EXCEPT ![c] = [NoServed EXCEPT !.entry = rolls[id]]]
             /\ cpost' = [cpost EXCEPT ![c] =
                    [NoServed EXCEPT !.entry = rolls'[id], !.kvErr = kvErr]]
  /\ cst' = [cst EXCEPT ![c] = "done"]
  /\ UNCHANGED <<holders, dead, cop, carg>>
  /\ UNCHANGED <<prepVars, podVars, lifeVars, healthVars, watchVars>>

\* Faulty variant: Lock reports the key as taken whenever the call succeeded.
LockResult_IgnoresRefusal(success, kvErr) ==
  IF kvErr THEN [ok |-> FALSE, err |-> "kv"] ELSE [ok |-> TRUE, err |-> "nil"]

\* Lock after s.kv.Acquire: (false, KVError) for an error of the call, else
\* (success, nil).
LockResult(success, kvErr) ==
  IF kvErr THEN [ok |-> FALSE, err |-> "kv"] ELSE [ok |-> success, err |-> "nil"]

\* consulStore.Lock(id, session) is called.
LockCall(c, id, session) ==
  StoreCall(c, "Lock", [NoArg EXCEPT !.id = id, !.session = session])

\* consulStore.Lock: s.kv.Acquire of the lock key of rolls/<id> for the
\* session is served, or fails (as it does for a destroyed session), and Lock
\* returns.
LockReturn(c) ==
  /\ cst[c] = "sent"
  /\ cop[c] = "Lock"
  /\ LET id == carg[c].id
         session == carg[c].session
     IN \E kvErr \in {session \in dead, TRUE} :
          LET r == IF kvErr THEN [ok |-> FALSE, hs |-> holders[id]]
                            ELSE KVAcquire(holders[id], session)
          IN /\ holders' = [holders EXCEPT ![id] = r.hs]
             /\ cres' = [cres EXCEPT ![c] = LockResult(r.ok, kvErr)]
             /\ cpre' = [cpre EXCEPT ![c] = [NoServed EXCEPT !.hs = holders[id]]]
             /\ cpost' = [cpost EXCEPT ![c] =
                    [NoServed EXCEPT !.hs = r.hs, !.kvErr = kvErr]]
  /\ cst' = [cst EXCEPT ![c] = "done"]
  /\ UNCHANGED <<kvIndex, rolls, dead, cop, carg, putWins>>
  /\ UNCHANGED <<prepVars, podVars, lifeVars, healthVars, watchVars>>

\* A session is destroyed (by its owner, or because its TTL ran out): the KV
\* store releases every key it holds.
SessionDestroy(session) ==
  /\ session \notin dead
  /\ dead' = dead \cup {session}
  /\ holders' = [id \in RCIds |-> holders[id] \ {session}]
  /\ UNCHANGED <<kvIndex, rolls, cop, cst, carg, cres, cpre, cpost, putWins>>
  /\ UNCHANGED <<prepVars, podVars, lifeVars, healthVars, watchVars>>

\* ------------------------------------------------------- the roll controller
\* The Update the roll controllers work on, and the session of each.
RollUpdate == Update("rcA", "rcB", MaxReplicas, MaxReplicas - 1)
Session(c) == IF c = "c1" THEN "s1" ELSE "s2"

NoObs == [old |-> 0, new |-> 0, healthy |-> 0]
NoStep == [old |-> -1, healthy |-> -1]
Min(a, b) == IF a <= b THEN a ELSE b
Max(a, b) == IF a >= b THEN a ELSE b

\* The loop's exit condition: NewRC.desired == target and no old replicas.
RollComplete(o) == o.new = RollUpdate.DesiredReplicas /\ o.old = 0

\* headroom = healthyNew + oldRc.desired - minimum.
Headroom(o) == o.healthy + o.old - RollUpdate.MinimumReplicas

\* Faulty variant: the step goes all the way to the target, whatever the
\* headroom.
Step_ToTarget(o) == RollUpdate.DesiredReplicas - o.new

\* step = min(headroom, target - NewRC.desired).
Step(o) == Min(Headroom(o), RollUpdate.DesiredReplicas - o.new)

\* Where a controller is while it runs the roll loop with both locks granted.
Rolling == {"observe", "wait", "apply", "deleting"}

\* Step 1: with its session, the controller calls Lock(newRcId).
RollLockNew(c) ==
  /\ rpc[c] = "start"
  /\ LockCall(c, RollUpdate.NewRC, Session(c))
  /\ rpc' = [rpc EXCEPT ![c] = "lockNew"]
  /\ UNCHANGED <<rcDesired, healthy, robs, owned, refused, mutations, applied,
                 lastStep, dup>>

\* Step 1: Lock(newRcId) returns.  Granted, the controller goes on to the old
\* RC's lock; otherwise it aborts without mutation.
RollLockedNew(c) ==
  /\ rpc[c] = "lockNew"
  /\ LockReturn(c)
  /\ rpc' = [rpc EXCEPT ![c] = IF cres'[c].ok THEN "gotNew" ELSE "release"]
  /\ refused' = [refused EXCEPT ![c] = cres'[c] = [ok |-> FALSE, err |-> "nil"]]
  /\ UNCHANGED <<rcDesired, healthy, robs, owned, mutations, applied, lastStep, dup>>

\* Step 1: the controller calls Lock(oldRcId).
RollLockOld(c) ==
  /\ rpc[c] = "gotNew"
  /\ LockCall(c, RollUpdate.OldRC, Session(c))
  /\ rpc' = [rpc EXCEPT ![c] = "lockOld"]
  /\ UNCHANGED <<rcDesired, healthy, robs, owned, refused, mutations, applied,
                 lastStep, dup>>

\* Step 1: Lock(oldRcId) returns.  Granted, the controller owns the Update and
\* enters the loop; otherwise it aborts without mutation.
RollLockedOld(c) ==
  /\ rpc[c] = "lockOld"
  /\ LockReturn(c)
  /\ rpc' = [rpc EXCEPT ![c] = IF cres'[c].ok THEN "observe" ELSE "release"]
  /\ owned' = [owned EXCEPT ![c] = cres'[c].ok]
  /\ refused' = [refused EXCEPT ![c] = cres'[c] = [ok |-> FALSE, err |-> "nil"]]
  /\ UNCHANGED <<rcDesired, healthy, robs, mutations, applied, lastStep, dup>>

\* Steps 3a-3c: the controller reads the replica counts and the health of
\* the new RC's pods, when it enters the loop, after a step and at each poll
\* of a wait.  The roll is complete, or there is no headroom and it waits
\* for the next poll, or it goes on to apply a step.
RollObserve(c) ==
  /\ rpc[c] \in {"observe", "wait"}
  /\ LET o == [old |-> rcDesired[RollUpdate.OldRC],
               new |-> rcDesired[RollUpdate.NewRC],
               healthy |-> healthy]
     IN IF RollComplete(o)
          THEN /\ DeleteCall(c, RollUpdate.NewRC)
               /\ rpc' = [rpc EXCEPT ![c] = "deleting"]
               /\ robs' = [robs EXCEPT ![c] = NoObs]
          ELSE /\ rpc' = [rpc EXCEPT ![c] = IF Headroom(o) <= 0 THEN "wait"
                                                               ELSE "apply"]
               /\ robs' = [robs EXCEPT ![c] = IF Headroom(o) <= 0 THEN NoObs ELSE o]
               /\ UNCHANGED <<kvIndex, rolls, holders, dead, cop, cst, carg, cres,
                              cpre, cpost, putWins>>
               /\ UNCHANGED <<prepVars, podVars, lifeVars, healthVars, watchVars>>
  /\ UNCHANGED <<rcDesired, healthy, owned, refused, mutations, applied,
                 lastStep, dup>>

\* Step 3d: the step is applied by a CAS on the replication controllers, which
\* is refused if they are no longer as the controller observed them (a step
\* that moves nothing writes nothing).  Every applied step changes the new
\* RC's count, towards the target, so no earlier counts come back and
\* comparing the counts is comparing the modify indices.
RollApply(c) ==
  /\ rpc[c] = "apply"
  /\ LET o == robs[c]
         now == <<rcDesired[RollUpdate.OldRC], rcDesired[RollUpdate.NewRC]>>
         hit == now = <<o.old, o.new>> /\ Step(o) # 0
     IN /\ rcDesired' = IF hit
                          THEN [rcDesired EXCEPT
                                  ![RollUpdate.NewRC] = @ + Step(o),
                                  ![RollUpdate.OldRC] = Max(0, @ - Step(o))]
                          ELSE rcDesired
        /\ mutations' = [mutations EXCEPT ![c] = IF hit THEN @ + 1 ELSE @]
        /\ applied' = IF hit THEN applied \cup {now} ELSE applied
        /\ lastStep' = IF hit THEN [old |-> Max(0, o.old - Step(o)),
                                    healthy |-> o.healthy]
                              ELSE lastStep
        /\ dup' = (dup \/ (hit /\ now \in applied))
  /\ rpc' = [rpc EXCEPT ![c] = "observe"]
  /\ robs' = [robs EXCEPT ![c] = NoObs]
  /\ UNCHANGED <<healthy, owned, refused>>
  /\ UNCHANGED <<kvIndex, rolls, holders, dead, cop, cst, carg, cres, cpre, cpost,
                 putWins>>
  /\ UNCHANGED <<prepVars, podVars, lifeVars, healthVars, watchVars>>

\* Step 4: the delete of the Update record returns.
RollDeleted(c) ==
  /\ rpc[c] = "deleting"
  /\ DeleteReturn(c)
  /\ rpc' = [rpc EXCEPT ![c] = "release"]
  /\ UNCHANGED <<rcDesired, healthy, robs, owned, refused, mutations, applied,
                 lastStep, dup>>

\* Step 4, and the end of an abort: the controller releases its session, if
\* it still has one, and exits.
RollRelease(c) ==
  /\ rpc[c] = "release"
  /\ IF Session(c) \in dead
       THEN /\ UNCHANGED <<kvIndex, rolls, holders, dead, cop, cst, carg, cres,
                           cpre, cpost, putWins>>
            /\ UNCHANGED <<prepVars, podVars, lifeVars, healthVars, watchVars>>
       ELSE SessionDestroy(Session(c))
  /\ rpc' = [rpc EXCEPT ![c] = "exited"]
  /\ UNCHANGED <<rcDesired, healthy, robs, owned, refused, mutations, applied,
                 lastStep, dup>>

\* Loss of session: a controller in the loop finds its session gone and
\* aborts, with no rollback.
RollAbort(c) ==
  /\ rpc[c] \in {"observe", "wait", "apply"}
  /\ Session(c) \in dead
  /\ rpc' = [rpc EXCEPT ![c] = "exited"]
  /\ robs' = [robs EXCEPT ![c] = NoObs]
  /\ UNCHANGED <<rcDesired, healthy, owned, refused, mutations, applied,
                 lastStep, dup>>
  /\ UNCHANGED <<kvIndex, rolls, holders, dead, cop, cst, carg, cres, cpre, cpost,
                 putWins>>
  /\ UNCHANGED <<prepVars, podVars, lifeVars, healthVars, watchVars>>

\* The health watchers publish another count of nodes on which the new RC's
\* pod is Passing.
HealthChange(n) ==
  /\ n # healthy
  /\ n <= rcDesired[RollUpdate.NewRC]
  /\ healthy' = n
  /\ UNCHANGED <<rcDesired, rpc, robs, owned, refused, mutations, applied,
                 lastStep, dup>>
  /\ UNCHANGED <<kvIndex, rolls, holders, dead, cop, cst, carg, cres, cpre, cpost,
                 putWins>>
  /\ UNCHANGED <<prepVars, podVars, lifeVars, healthVars, watchVars>>

\* Every pod of the new RC gets to Passing.
PodsPass == HealthChange(rcDesired[RollUpdate.NewRC])

\* A session whose renewal stopped runs out.
SessionExpire(session) ==
  /\ SessionDestroy(session)
  /\ UNCHANGED rollVars

\* ------------------------------------------------------- the roll store's Watch
\* Bytes under the roll tree that are not the JSON of an Update.
Garbled == Update("?", "?", -1, -1)

\* What an external writer may leave under the roll tree.
TreeValues == Updates \cup {Garbled}

\* json.Unmarshal(kvp.Value, &next).
Unmarshal(val) ==
  IF val = Garbled THEN [ok |-> FALSE, u |-> NoUpdate] ELSE [ok |-> TRUE, u |-> val]

\* The keys of the roll tree in the order the KV store lists them.
KeyOrder == <<"rcA", "rcB">>

\* The KV store's List(prefix): the value of every entry under the prefix, in
\* key order.
KVList(tree) ==
  LET present == SelectSeq(KeyOrder, LAMBDA k : tree[k].idx # 0)
  IN [i \in 1..Len(present) |-> tree[present[i]].val]

NoListing == [snap |-> [id \in RCIds |-> NoEntry], wait |-> 0]
NoBatch == [snap |-> [id \in RCIds |-> NoEntry], wait |-> 0, index |-> 0,
            batch |-> << >>, errs |-> -1]

\* Faulty variant: the slice of the previous listing is appended to.
NewOut_Reuse(prev) == prev

\* `out := make([]rollf.Update, 0, len(listed))`
NewOut(prev) == << >>

\* Faulty variant: an entry that did not parse is appended all the same.
AppendNext_KeepsBad(o, r) == Append(o, r.u)

\* `if err != nil { errCh <- err } else { out = append(out, next) }`: what
\* out is after the entry.
AppendNext(o, r) == IF r.ok THEN Append(o, r.u) ELSE o

\* An external writer puts a value at rolls/<id>.
TreeWrite(id, val) ==
  /\ kvIndex < MaxIndex
  /\ rolls[id].val # val
  /\ kvIndex' = kvIndex + 1
  /\ rolls' = [rolls EXCEPT ![id] = [idx |-> kvIndex + 1, val |-> val]]
  /\ UNCHANGED <<holders, dead, cop, cst, carg, cres, cpre, cpost, putWins>>
  /\ UNCHANGED <<prepVars, podVars, lifeVars, healthVars, rollVars, watchVars>>

\* An external writer deletes rolls/<id>.
TreeDelete(id) ==
  /\ kvIndex < MaxIndex
  /\ rolls[id].idx # 0
  /\ kvIndex' = kvIndex + 1
  /\ rolls' = [rolls EXCEPT ![id] = NoEntry]
  /\ UNCHANGED <<holders, dead, cop, cst, carg, cres, cpre, cpost, putWins>>
  /\ UNCHANGED <<prepVars, podVars, lifeVars, healthVars, rollVars, watchVars>>

\* The goroutine's select: a closed quit channel makes it return, and the
\* deferred calls close errCh and outCh; else the timer fires after a second.
WatchSelect ==
  /\ tpc = "select"
  /\ IF quitCh
       THEN /\ tpc' = "exited"
            /\ closed' = {"outCh", "errCh"}
       ELSE /\ tpc' = "list"
            /\ UNCHANGED closed
  /\ UNCHANGED <<currentIndex, listed, ti, wout, quitCh, consuming, lst, errsSent,
                 emitted>>
  /\ UNCHANGED <<kvIndex, rolls, holders, dead, cop, cst, carg, cres, cpre, cpost,
                 putWins>>
  /\ UNCHANGED <<prepVars, podVars, lifeVars, healthVars, rollVars>>

\* s.kv.List(kp.ROLL_TREE, WaitIndex: currentIndex) returns: an error, which
\* is to be sent on errCh, or the listing and its index.
WatchList ==
  /\ tpc = "list"
  /\ \E kvErr \in BOOLEAN :
       IF kvErr
         THEN /\ tpc' = "sendListErr"
              /\ UNCHANGED <<currentIndex, listed, ti, wout, lst, errsSent>>
         ELSE /\ tpc' = "decode"
              /\ currentIndex' = kvIndex
              /\ listed' = KVList(rolls)
              /\ ti' = 1
              /\ wout' = NewOut(wout)
              /\ lst' = [snap |-> rolls, wait |-> currentIndex]
              /\ errsSent' = 0
  /\ UNCHANGED <<quitCh, closed, consuming, emitted>>
  /\ UNCHANGED <<kvIndex, rolls, holders, dead, cop, cst, carg, cres, cpre, cpost,
                 putWins>>
  /\ UNCHANGED <<prepVars, podVars, lifeVars, healthVars, rollVars>>

\* The range loop over listed: the entry is unmarshalled; if that fails the
\* error is to be sent on errCh, else the Update is appended to out.  After
\* the last entry out is to be sent on outCh.
WatchDecode ==
  /\ tpc = "decode"
  /\ IF ti > Len(listed)
       THEN /\ tpc' = "sendOut"
            /\ UNCHANGED <<ti, wout>>
       ELSE LET r == Unmarshal(listed[ti])
            IN /\ wout' = AppendNext(wout, r)
               /\ IF r.ok THEN /\ ti' = ti + 1
                               /\ UNCHANGED tpc
                          ELSE /\ tpc' = "sendErr"
                               /\ UNCHANGED ti
  /\ UNCHANGED <<currentIndex, listed, quitCh, closed, consuming, lst, errsSent,
                 emitted>>
  /\ UNCHANGED <<kvIndex, rolls, holders, dead, cop, cst, carg, cres, cpre, cpost,
                 putWins>>
  /\ UNCHANGED <<prepVars, podVars, lifeVars, healthVars, rollVars>>

\* `errCh <- err`: the send goes through when the caller receives.  After the
\* error of kv.List the goroutine is back at its select, after the error of
\* an entry it goes on with the next entry.
WatchSendErr ==
  /\ tpc \in {"sendListErr", "sendErr"}
  /\ consuming
  /\ IF tpc = "sendErr"
       THEN /\ tpc' = "decode"
            /\ ti' = ti + 1
            /\ errsSent' = errsSent + 1
       ELSE /\ tpc' = "select"
            /\ UNCHANGED <<ti, errsSent>>
  /\ UNCHANGED <<currentIndex, listed, wout, quitCh, closed, consuming, lst, emitted>>
  /\ UNCHANGED <<kvIndex, rolls, holders, dead, cop, cst, carg, cres, cpre, cpost,
                 putWins>>
  /\ UNCHANGED <<prepVars, podVars, lifeVars, healthVars, rollVars>>

\* `outCh <- out`: the send goes through when the caller receives, and the
\* goroutine is back at its select.
WatchSendOut ==
  /\ tpc = "sendOut"
  /\ consuming
  /\ tpc' = "select"
  /\ emitted' = [snap |-> lst.snap, wait |-> lst.wait, index |-> currentIndex,
                 batch |-> wout, errs |-> errsSent]
  /\ UNCHANGED <<currentIndex, listed, ti, wout, quitCh, closed, consuming, lst,
                 errsSent>>
  /\ UNCHANGED <<kvIndex, rolls, holders, dead, cop, cst, carg, cres, cpre, cpost,
                 putWins>>
  /\ UNCHANGED <<prepVars, podVars, lifeVars, healthVars, rollVars>>

\* The caller closes the quit channel.
QuitClose ==
  /\ ~quitCh
  /\ quitCh' = TRUE
  /\ UNCHANGED <<tpc, currentIndex, listed, ti, wout, closed, consuming, lst,
                 errsSent, emitted>>
  /\ UNCHANGED <<kvIndex, rolls, holders, dead, cop, cst, carg, cres, cpre, cpost,
                 putWins>>
  /\ UNCHANGED <<prepVars, podVars, lifeVars, healthVars, rollVars>>

\* The caller, having closed the quit channel, stops receiving.
ConsumerStop ==
  /\ quitCh
  /\ consuming
  /\ consuming' = FALSE
  /\ UNCHANGED <<tpc, currentIndex, listed, ti, wout, quitCh, closed, lst, errsSent,
                 emitted>>
  /\ UNCHANGED <<kvIndex, rolls, holders, dead, cop, cst, carg, cres, cpre, cpost,
                 putWins>>
  /\ UNCHANGED <<prepVars, podVars, lifeVars, healthVars, rollVars>>

\* ------------------------------------------------------- the health watcher
\* The pod paths of a node's reality tree, in the order ListPods returns
\* them, and the status ports a manifest may have.
PodPaths == {"p1", "p2", "p3"}
PathOrder == <<"p1", "p2", "p3">>
StatusPorts == {1, 2}

\* kp.ManifestResult and PodWatch.  cap is the capacity of shutdownCh: 0 as
\* updatePods makes it, 1 as newWatch of the tests makes it.
ManifestResult(path, port) == [path |-> path, port |-> port]
PodWatch(man, cap) == [manifest |-> man, cap |-> cap, hasMonitor |-> FALSE]

\* updatePods, second loop: `&PodWatch{manifest: man, shutdownCh: make(chan
\* bool), hasMonitor: false}`.
NewPodWatch(man) == PodWatch(man, 0)

\* Faulty variant: every watch counts as being in reality.
InReality_Always(pod, reality) == TRUE

\* updatePods, first loop: `pod.manifest.Path == man.Path` for some man.
InReality(pod, reality) ==
  \E j \in DOMAIN reality : pod.manifest.path = reality[j].path

\* updatePods, second loop: no pod of current has man.Path.
Missing(man, current) ==
  \A j \in DOMAIN current : man.path # current[j].manifest.path

\* `pod.shutdownCh <- true` goes through without a receiver only if the
\* channel has a free buffer slot; no goroutine receives from shutdownCh.
SendGoesThrough(pod, sent) == sent < pod.cap

\* updatePods(current, reality) is called.
UpdCall(current, reality) ==
  /\ upc' = "kill"
  /\ ucur' = current
  /\ ureal' = reality
  /\ sigs' = [i \in DOMAIN current |-> 0]
  /\ ui' = 1
  /\ unew' = << >>

\* updatePods, first loop: a watch that is in reality is appended to
\* newCurrent, one that is not gets `true` on its shutdownCh, and there the
\* call blocks if the send cannot go through.
UpdKill ==
  /\ upc = "kill"
  /\ IF ui > Len(ucur)
       THEN /\ upc' = "add"
            /\ ui' = 1
            /\ UNCHANGED <<unew, sigs>>
       ELSE IF InReality(ucur[ui], ureal)
         THEN /\ unew' = Append(unew, ucur[ui])
              /\ ui' = ui + 1
              /\ UNCHANGED <<upc, sigs>>
         ELSE IF SendGoesThrough(ucur[ui], sigs[ui])
           THEN /\ sigs' = [sigs EXCEPT ![ui] = @ + 1]
                /\ ui' = ui + 1
                /\ UNCHANGED <<upc, unew>>
           ELSE /\ upc' = "blocked"
                /\ UNCHANGED <<ui, unew, sigs>>
  /\ UNCHANGED <<ucur, ureal, hpc, hpods, realTree, monitors, lastResult>>
  /\ UNCHANGED <<prepVars, podVars, lifeVars, kvVars, rollVars, watchVars>>

\* updatePods, second loop: a PodWatch is made for every manifest of reality
\* that no watch of current has; then newCurrent is returned.
UpdAdd ==
  /\ upc = "add"
  /\ IF ui > Len(ureal)
       THEN /\ upc' = "done"
            /\ UNCHANGED <<ui, unew>>
       ELSE /\ unew' = IF Missing(ureal[ui], ucur)
                         THEN Append(unew, NewPodWatch(ureal[ui]))
                         ELSE unew
            /\ ui' = ui + 1
            /\ UNCHANGED upc
  /\ UNCHANGED <<ucur, ureal, sigs, hpc, hpods, realTree, monitors, lastResult>>
  /\ UNCHANGED <<prepVars, podVars, lifeVars, kvVars, rollVars, watchVars>>

\* store.ListPods(node): the manifests under reality/<node>, in key order.
ListPods(tree) ==
  LET present == SelectSeq(PathOrder, LAMBDA q : q \in tree)
  IN [i \in 1..Len(present) |-> ManifestResult(present[i], 1)]

\* What running the check script comes to: cmd.Start fails, or the script
\* runs and exits with 0 or with another status.
CheckOutcomes == {"startError", "exit0", "exitNonZero"}

\* check(c): ("", "", err) when cmd.Start or cmd.Wait returns an error, and
\* Wait returns one for every exit status but 0; else Passing or Critical by
\* cmd.ProcessState.Success().
Check(outcome) ==
  IF outcome = "startError" THEN ""
  ELSE IF outcome # "exit0" THEN ""
  ELSE IF outcome = "exit0" THEN "passing" ELSE "critical"

NoResult == [id |-> "", status |-> "none", outcome |-> "none"]

\* WatchHealth, `case <-tochan`: updateHealthMonitors lists the reality tree;
\* an error ends WatchHealth, which returns it, else updatePods(pods, reality)
\* is called.
HealthTick ==
  /\ hpc = "select"
  /\ \E err \in BOOLEAN :
       IF err
         THEN /\ hpc' = "failed"
              /\ UNCHANGED <<upc, ucur, ureal, sigs, ui, unew>>
         ELSE /\ hpc' = "updating"
              /\ UpdCall(hpods, ListPods(realTree))
  /\ UNCHANGED <<hpods, realTree, monitors, lastResult>>
  /\ UNCHANGED <<prepVars, podVars, lifeVars, kvVars, rollVars, watchVars>>

\* updateHealthMonitors after updatePods: the result is assigned to the
\* parameter pods, a MonitorHealth goroutine is started for every watch of it
\* whose hasMonitor is false, and WatchHealth, whose own pods slice is as it
\* was, starts the timer again.
HealthSpawn ==
  /\ hpc = "updating"
  /\ upc = "done"
  /\ LET spawned == {unew[i].manifest.path :
                       i \in {j \in DOMAIN unew : ~unew[j].hasMonitor}}
     IN /\ \A q \in spawned : monitors[q] < MaxMonitors
        /\ monitors' = [q \in PodPaths |->
                          IF q \in spawned THEN monitors[q] + 1 ELSE monitors[q]]
  /\ hpc' = "select"
  /\ upc' = "idle"
  /\ ucur' = << >>
  /\ ureal' = << >>
  /\ sigs' = << >>
  /\ ui' = 1
  /\ unew' = << >>
  /\ UNCHANGED <<hpods, realTree, lastResult>>
  /\ UNCHANGED <<prepVars, podVars, lifeVars, kvVars, rollVars, watchVars>>

\* WatchHealth, `case <-shutdownCh`: return nil.
HealthShutdown ==
  /\ hpc = "select"
  /\ hpc' = "exited"
  /\ UNCHANGED <<upc, ucur, ureal, sigs, ui, unew, hpods, realTree, monitors,
                 lastResult>>
  /\ UNCHANGED <<prepVars, podVars, lifeVars, kvVars, rollVars, watchVars>>

\* MonitorHealth, `case <-tochan`: a goroutine of the pod's monitor runs
\* checkHealth, which makes a health.Result with the status check returned.
MonitorCheck(q) ==
  /\ monitors[q] > 0
  /\ \E outcome \in CheckOutcomes :
       lastResult' = [id |-> q, status |-> Check(outcome), outcome |-> outcome]
  /\ UNCHANGED <<upc, ucur, ureal, sigs, ui, unew, hpc, hpods, realTree, monitors>>
  /\ UNCHANGED <<prepVars, podVars, lifeVars, kvVars, rollVars, watchVars>>

\* A preparer writes a pod's manifest under reality/<node>, or removes it.
RealityPut(q) ==
  /\ q \notin realTree
  /\ realTree' = realTree \cup {q}
  /\ UNCHANGED <<upc, ucur, ureal, sigs, ui, unew, hpc, hpods, monitors, lastResult>>
  /\ UNCHANGED <<prepVars, podVars, lifeVars, kvVars, rollVars, watchVars>>

RealityRemove(q) ==
  /\ q \in realTree
  /\ realTree' = realTree \ {q}
  /\ UNCHANGED <<upc, ucur, ureal, sigs, ui, unew, hpc, hpods, monitors, lastResult>>
  /\ UNCHANGED <<prepVars, podVars, lifeVars, kvVars, rollVars, watchVars>>

\* ------------------------------------------------------- specification
\* The pod directories as earlier runs left them: "web" launched with
\* its first manifest and running, every other pod not installed.
InstalledAtStart(p) == IF p = "web" THEN 1 ELSE 0

PrepInit ==
  /\ intent = {}
  /\ watchOut = NoMsg
  /\ mainPc = "select"
  /\ mainManifest = ZeroManifest
  /\ podChanMap = [p \in Pods |-> 0]
  /\ quitChanMap = [p \in Pods |-> 0]
  /\ quitClosed = [w \in Workers |-> FALSE]
  /\ wpod = [w \in Workers |-> ""]
  /\ wpc = [w \in Workers |-> "none"]
  /\ manifestToLaunch = [w \in Workers |-> ZeroManifest]
  /\ working = [w \in Workers |-> FALSE]
  /\ hookArg = [w \in Workers |-> ZeroManifest]
  /\ disk = [p \in Pods |-> IF InstalledAtStart(p) = 0 THEN NoFile
                             ELSE FileOf(Manifest(p, InstalledAtStart(p)))]
  /\ running = [p \in Pods |-> InstalledAtStart(p)]
  /\ lastRecv = [w \in Workers |-> ZeroManifest]
  /\ retrying = [w \in Workers |-> FALSE]
  /\ superseded = [w \in Workers |-> FALSE]
  /\ attHalt = [w \in Workers |-> "no"]
  /\ attLaunched = [w \in Workers |-> FALSE]
  /\ attEqual = [w \in Workers |-> FALSE]
  /\ attInstallFailed = [w \in Workers |-> FALSE]

\* The pod of SpecPod before any Launch call: no Launch is running.
PodIdle ==
  /\ lastFile = NoFile
  /\ lpc = "idle"
  /\ lm = ZeroManifest
  /\ lerr = "nil"
  /\ successes = << >>
  /\ lsuccess = TRUE
  /\ li = 1
  /\ lret = NoRet
  /\ wcmFail = "none"
  /\ reverted = "n/a"
  /\ ops = {}
  /\ startOuts = << >>

\* No Install, Halt or Uninstall call has been made.
LifeIdle ==
  /\ op = "none"
  /\ opc = "idle"
  /\ om = ZeroManifest
  /\ oi = 1
  /\ osuccess = TRUE
  /\ oret = NoRet
  /\ pre = NoPodFiles
  /\ haltOuts = << >>
  /\ steps = << >>

\* No roll controller at work.
RollIdle ==
  /\ rcDesired = [id \in RCIds |-> 0]
  /\ healthy = 0
  /\ rpc = [c \in Clients |-> "idle"]
  /\ robs = [c \in Clients |-> NoObs]
  /\ owned = [c \in Clients |-> FALSE]
  /\ refused = [c \in Clients |-> FALSE]
  /\ mutations = [c \in Clients |-> 0]
  /\ applied = {}
  /\ lastStep = NoStep
  /\ dup = FALSE

\* The locals and channels of a Watch goroutine that has not run yet.
WatchLocals ==
  /\ currentIndex = 0
  /\ listed = << >>
  /\ ti = 1
  /\ wout = << >>
  /\ quitCh = FALSE
  /\ closed = {}
  /\ consuming = TRUE
  /\ lst = NoListing
  /\ errsSent = 0
  /\ emitted = NoBatch

\* Watch has not been called.
WatchIdle == tpc = "idle" /\ WatchLocals

\* An empty roll tree, no lock held, no session destroyed, no call made.
KvIdle ==
  /\ kvIndex = 0
  /\ rolls = [id \in RCIds |-> NoEntry]
  /\ holders = [id \in RCIds |-> {}]
  /\ dead = {}
  /\ cop = [c \in Clients |-> "none"]
  /\ cst = [c \in Clients |-> "idle"]
  /\ carg = [c \in Clients |-> NoArg]
  /\ cres = [c \in Clients |-> NoRes]
  /\ cpre = [c \in Clients |-> NoServed]
  /\ cpost = [c \in Clients |-> NoServed]
  /\ putWins = [id \in RCIds |-> 0]

\* No call of updatePods under way.
UpdIdle ==
  /\ upc = "idle"
  /\ ucur = << >>
  /\ ureal = << >>
  /\ sigs = << >>
  /\ ui = 1
  /\ unew = << >>

\* WatchHealth with its empty pods slice, no pod in the reality tree, no
\* monitor running.
HealthStart ==
  /\ hpods = << >>
  /\ realTree = {}
  /\ monitors = [q \in PodPaths |-> 0]
  /\ lastResult = NoResult

\* WatchHealth has not been called.
HealthIdle == hpc = "idle" /\ UpdIdle /\ HealthStart

\* The roll store with no call made, no roll controller and no Watch, and no
\* health watcher.
StoreIdle == KvIdle /\ RollIdle /\ WatchIdle /\ HealthIdle

\* A pod directory in which manifest version v is launched (v = 0: none).
LaunchedAt(v) ==
  /\ pfile = (IF v = 0 THEN NoFile ELSE FileOf(Manifest(PodId, v)))
  /\ symlink = [i \in LaunchableIdx |-> v]
  /\ sbConfig = v
  /\ started = [i \in LaunchableIdx |-> v]

\* A pod directory in which manifest version v is installed (v = 0: the pod
\* has no home directory yet).
InstalledAt(v) ==
  /\ homeDir = (v # 0)
  /\ installed = [i \in LaunchableIdx |-> v]
  /\ config = v

Init ==
  /\ PrepInit
  /\ PodIdle
  /\ LifeIdle
  /\ StoreIdle
  /\ pfile = disk[PodId]
  /\ preFile = pfile
  /\ symlink = [i \in LaunchableIdx |-> running[PodId]]
  /\ sbConfig = running[PodId]
  /\ started = [i \in LaunchableIdx |-> running[PodId]]
  /\ InstalledAt(running[PodId])

Next ==
  \/ \E p \in Pods : IntentWrite(p)
  \/ \E p \in Pods, v \in Versions : WatcherEmitManifest(p, v)
  \/ WatcherEmitError
  \/ MainRecvErr
  \/ MainRecvManifest
  \/ MainSend
  \/ \E w \in Workers : WorkerSelect(w)
  \/ \E w \in Workers : WorkerInstall(w)
  \/ \E w \in Workers : WorkerCurrentManifest(w)
  \/ \E w \in Workers : WorkerHalt(w)
  \/ \E w \in Workers : WorkerApplied(w)
  \/ \E w \in Workers : WorkerWake(w)

Spec == Init /\ [][Next]_vars

\* SpecPod: Launch calls on one Pod, from a pod directory in which the first
\* manifest is installed and either not launched yet or launched.
PodInit ==
  /\ PrepInit
  /\ PodIdle
  /\ LifeIdle
  /\ StoreIdle
  /\ \E v \in {0, InstalledAtStart(PodId)} : LaunchedAt(v)
  /\ InstalledAt(InstalledAtStart(PodId))
  /\ preFile = pfile

PodNext ==
  \/ \E m \in LaunchInputs : LaunchCall(m) /\ UNCHANGED lifeVars
  \/ WcmTempDir
  \/ WcmStage
  \/ WcmOpen
  \/ WcmWrite
  \/ WcmIDs
  \/ WcmChown
  \/ LaunchAfterWrite
  \/ LaunchMakeCurrent
  \/ LaunchPostActivate
  \/ LaunchBuild
  \/ LaunchStart

SpecPod == PodInit /\ [][PodNext]_vars

\* SpecLife: Install, Halt and Uninstall calls on one Pod, one call at a
\* time, and Launch calls with a manifest Launch refuses (what Launch does
\* with one it accepts is followed step by step in SpecPod).  The pod
\* directory does not exist yet, or holds the first manifest, installed and
\* launched.
LifeInit ==
  /\ PrepInit
  /\ PodIdle
  /\ LifeIdle
  /\ StoreIdle
  /\ \E v \in {0, InstalledAtStart(PodId)} : LaunchedAt(v) /\ InstalledAt(v)
  /\ preFile = pfile

LifeNext ==
  \/ \E m \in LifeInputs : InstallCall(m)
  \/ InstallMkdir
  \/ InstallLaunchables
  \/ InstallArtifact
  \/ InstallConfig
  \/ \E m \in LifeInputs : HaltCall(m)
  \/ HaltLaunchable
  \/ UninstallCall
  \/ UninstallHalt
  \/ UninstallRemoveConfig
  \/ UninstallPrune
  \/ UninstallRemoveAll
  \/ LifeLaunch(UnsupportedManifest)

SpecLife == LifeInit /\ [][LifeNext]_vars

\* SpecStore: clients calling Put, Delete and Lock on one roll store, their
\* calls overlapping, and sessions being destroyed.
StoreNext ==
  \/ \E c \in Clients, u \in Updates : PutCall(c, u) /\ UNCHANGED rollVars
  \/ \E c \in Clients : PutReturn(c) /\ UNCHANGED rollVars
  \/ \E c \in Clients, id \in RCIds : DeleteCall(c, id) /\ UNCHANGED rollVars
  \/ \E c \in Clients : DeleteReturn(c) /\ UNCHANGED rollVars
  \/ \E c \in Clients, id \in RCIds, session \in Sessions :
        LockCall(c, id, session) /\ UNCHANGED rollVars
  \/ \E c \in Clients : LockReturn(c) /\ UNCHANGED rollVars
  \/ \E session \in Sessions : SessionDestroy(session) /\ UNCHANGED rollVars

SpecStore == Init /\ [][StoreNext]_vars

\* SpecRoll: two roll controllers, each with a session of its own, take up
\* the same Update, which a planner has put into the roll tree; sessions may
\* run out and the health of the new pods changes as it will.
RollInit ==
  /\ PrepInit
  /\ PodIdle
  /\ LifeIdle
  /\ LaunchedAt(InstalledAtStart(PodId))
  /\ InstalledAt(InstalledAtStart(PodId))
  /\ preFile = pfile
  /\ kvIndex = 1
  /\ rolls = [id \in RCIds |-> IF id = RollUpdate.NewRC
                                 THEN [idx |-> 1, val |-> RollUpdate]
                                 ELSE NoEntry]
  /\ holders = [id \in RCIds |-> {}]
  /\ dead = {}
  /\ cop = [c \in Clients |-> "none"]
  /\ cst = [c \in Clients |-> "idle"]
  /\ carg = [c \in Clients |-> NoArg]
  /\ cres = [c \in Clients |-> NoRes]
  /\ cpre = [c \in Clients |-> NoServed]
  /\ cpost = [c \in Clients |-> NoServed]
  /\ putWins = [id \in RCIds |-> IF id = RollUpdate.NewRC THEN 1 ELSE 0]
  /\ \E old \in 0..MaxReplicas, new \in 0..MaxReplicas :
       rcDesired = [id \in RCIds |-> IF id = RollUpdate.NewRC THEN new ELSE old]
  /\ healthy = 0
  /\ rpc = [c \in Clients |-> "start"]
  /\ robs = [c \in Clients |-> NoObs]
  /\ owned = [c \in Clients |-> FALSE]
  /\ refused = [c \in Clients |-> FALSE]
  /\ mutations = [c \in Clients |-> 0]
  /\ applied = {}
  /\ lastStep = NoStep
  /\ dup = FALSE
  /\ WatchIdle
  /\ HealthIdle

RollNext ==
  \/ \E c \in Clients : RollLockNew(c)
  \/ \E c \in Clients : RollLockedNew(c)
  \/ \E c \in Clients : RollLockOld(c)
  \/ \E c \in Clients : RollLockedOld(c)
  \/ \E c \in Clients : RollObserve(c)
  \/ \E c \in Clients : RollApply(c)
  \/ \E c \in Clients : RollDeleted(c)
  \/ \E c \in Clients : RollRelease(c)
  \/ \E c \in Clients : RollAbort(c)
  \/ \E n \in 0..MaxReplicas : HealthChange(n)
  \/ \E session \in Sessions : SessionExpire(session)

SpecRoll == RollInit /\ [][RollNext]_vars

\* FairSpecRoll: the same two controllers when nothing fails: no KV call
\* returns an error, no session runs out, and the pods of the new RC all get
\* to Passing.  Each controller is a task that keeps running, and so are the
\* health watchers.
RollerStep(c) ==
  \/ RollLockNew(c)
  \/ RollLockedNew(c) /\ ~cpost'[c].kvErr
  \/ RollLockOld(c)
  \/ RollLockedOld(c) /\ ~cpost'[c].kvErr
  \/ RollObserve(c)
  \/ RollApply(c)
  \/ RollDeleted(c) /\ ~cpost'[c].kvErr
  \/ RollRelease(c)

RollRunNext ==
  \/ \E c \in Clients : RollerStep(c)
  \/ PodsPass

FairSpecRoll ==
  /\ RollInit
  /\ [][RollRunNext]_vars
  /\ \A c \in Clients : WF_vars(RollerStep(c))
  /\ WF_vars(PodsPass)

\* SpecWatch: Watch was called on a store with an empty roll tree; external
\* writers put Updates and other bytes under the tree and delete them, the
\* caller receives from both channels until it has closed the quit channel
\* and stops.
WatchInit ==
  /\ PrepInit
  /\ PodIdle
  /\ LifeIdle
  /\ LaunchedAt(InstalledAtStart(PodId))
  /\ InstalledAt(InstalledAtStart(PodId))
  /\ preFile = pfile
  /\ KvIdle
  /\ RollIdle
  /\ tpc = "select"
  /\ WatchLocals
  /\ HealthIdle

WatchStep ==
  \/ WatchSelect
  \/ WatchList
  \/ WatchDecode
  \/ WatchSendErr
  \/ WatchSendOut

WatchNext ==
  \/ WatchStep
  \/ \E id \in RCIds, val \in TreeValues : TreeWrite(id, val)
  \/ \E id \in RCIds : TreeDelete(id)
  \/ QuitClose
  \/ ConsumerStop

SpecWatch == WatchInit /\ [][WatchNext]_vars

\* FairSpecWatch: SpecWatch with the Watch goroutine scheduled whenever it
\* can take a step.
FairSpecWatch == SpecWatch /\ WF_vars(WatchStep)
\* Sequences of distinct elements of S.
DistinctSeqs(S) ==
  UNION { { f \in [1..n -> S] : \A i, j \in 1..n : i # j => f[i] # f[j] } :
          n \in 0..Cardinality(S) }

\* SpecUpdatePods: one call of updatePods.  current holds watches of distinct
\* pods, all with shutdownCh as updatePods makes it or all as newWatch makes
\* it, on manifests with status port 1; reality holds manifests of distinct
\* pods with any status port.
UpdInit ==
  /\ PrepInit
  /\ PodIdle
  /\ LifeIdle
  /\ LaunchedAt(InstalledAtStart(PodId))
  /\ InstalledAt(InstalledAtStart(PodId))
  /\ preFile = pfile
  /\ KvIdle
  /\ RollIdle
  /\ WatchIdle
  /\ hpc = "idle"
  /\ HealthStart
  /\ upc = "kill"
  /\ ui = 1
  /\ unew = << >>
  /\ \E cs \in DistinctSeqs(PodPaths), cap \in {0, 1} :
       /\ ucur = [i \in DOMAIN cs |-> PodWatch(ManifestResult(cs[i], 1), cap)]
       /\ sigs = [i \in DOMAIN cs |-> 0]
  /\ \E rs \in DistinctSeqs(PodPaths) :
       \E ports \in [DOMAIN rs -> StatusPorts] :
         ureal = [i \in DOMAIN rs |-> ManifestResult(rs[i], ports[i])]

UpdNext ==
  \/ UpdKill
  \/ UpdAdd

SpecUpdatePods == UpdInit /\ [][UpdNext]_vars

\* SpecHealth: WatchHealth on a node whose reality tree the preparer changes
\* as it will.
HealthInit ==
  /\ PrepInit
  /\ PodIdle
  /\ LifeIdle
  /\ LaunchedAt(InstalledAtStart(PodId))
  /\ InstalledAt(InstalledAtStart(PodId))
  /\ preFile = pfile
  /\ KvIdle
  /\ RollIdle
  /\ WatchIdle
  /\ hpc = "select"
  /\ UpdIdle
  /\ HealthStart

HealthStep ==
  \/ HealthTick
  \/ UpdKill
  \/ UpdAdd
  \/ HealthSpawn

HealthNext ==
  \/ HealthStep
  \/ HealthShutdown
  \/ \E q \in PodPaths : MonitorCheck(q)
  \/ \E q \in PodPaths : RealityPut(q)
  \/ \E q \in PodPaths : RealityRemove(q)

SpecHealth == HealthInit /\ [][HealthNext]_vars

\* FairSpecHealth: SpecHealth with WatchHealth and every monitor scheduled
\* whenever they can take a step.
FairSpecHealth ==
  /\ SpecHealth
  /\ WF_vars(HealthStep)
  /\ \A q \in PodPaths : WF_vars(MonitorCheck(q))

\* The Go scheduler runs every goroutine that can take a step: the main loop
\* and each worker are weakly fair.  The watcher and the external writers are
\* not constrained.
FairSpec ==
  /\ Spec
  /\ WF_vars(MainRecvErr)
  /\ WF_vars(MainRecvManifest)
  /\ WF_vars(MainSend)
  /\ \A w \in Workers :
       /\ WF_vars(WorkerSelect(w))
       /\ WF_vars(WorkerInstall(w))
       /\ WF_vars(WorkerCurrentManifest(w))
       /\ WF_vars(WorkerHalt(w))
       /\ WF_vars(WorkerApplied(w))
       /\ WF_vars(WorkerWake(w))

\* ------------------------------------------------- preparer properties
\* The positions of a worker inside installAndLaunchPod.
AttemptPcs == {"install", "curman", "halt"}
PodOf(w) == manifestToLaunch[w].id

\* C1: on the upgrade path (Install succeeded, the on-disk manifest has a
\* different fingerprint) the worker halts the old manifest and then launches
\* the new one: it never reports the manifest as applied when it has halted
\* the old manifest and has not launched the new one.
C1_UpgradeLaunchesNew ==
  \A w \in Workers :
    (wpc[w] = "applied" /\ attHalt[w] = "stopped") => attLaunched[w]

\* C2: for a pod with no current manifest on disk, once Install of the
\* intended manifest has succeeded the worker's next step invokes Launch with
\* that manifest.
C2_InitialInstallLaunches ==
  [][\A w \in Workers :
       (wpc[w] = "curman" /\ disk[PodOf(w)] = NoFile /\ wpc'[w] # "curman")
          => attLaunched'[w]]_vars

\* C6: the hand-off of a manifest to a pod's worker never blocks: the main
\* loop is never held at its send while the worker of that pod id is
\* installing, halting or in its retry sleep.
C6_HandoffNeverBlocks ==
  mainPc = "send" => wpc[podChanMap[mainManifest.id]] = "select"

\* C7: for every pod id at most one worker goroutine exists, and so at most
\* one Install/CurrentManifest/Halt/Launch sequence runs against the pod at
\* any moment.
C7_OneWorkerPerPod ==
  \A p \in Pods :
    /\ Cardinality({w \in Workers : wpod[w] = p}) <= 1
    /\ Cardinality({w \in Workers : wpod[w] = p /\ wpc[w] \in AttemptPcs}) <= 1

\* C7 witness: the worker of a pod has been handed a second manifest while the
\* first was pending and is inside an attempt, with one worker for every pod.
C7_Witness ==
  /\ \A p \in Pods : \E w \in Workers : wpod[w] = p
  /\ \E w \in Workers : superseded[w] /\ wpc[w] \in AttemptPcs

\* C8: every install/launch attempt works on the newest manifest the worker
\* has received, also when that manifest arrived while the worker was
\* retrying an earlier one.
C8_AttemptUsesNewest ==
  \A w \in Workers :
    wpc[w] \in AttemptPcs => manifestToLaunch[w] = lastRecv[w]

\* C8 witness: a worker that received a manifest while retrying another is in
\* an attempt (here one on content version 2).
C8_Witness ==
  \E w \in Workers :
    /\ superseded[w]
    /\ wpc[w] = "curman"
    /\ lastRecv[w].ver = 2

\* C9: when a pod id that has a worker stays absent from the intent tree, its
\* worker's quit channel is closed and the worker exits.
C9_RemovedPodWorkerExits ==
  \A p \in Pods :
    <>[](podChanMap[p] # 0 /\ p \notin intent)
       => <>(\E w \in Workers : wpod[w] = p /\ (quitClosed[w] \/ wpc[w] = "exited"))

\* C10: an attempt that finds the on-disk manifest's fingerprint equal to the
\* new manifest's calls neither Halt nor Launch and returns true.
C10_SameManifestNoop ==
  \A w \in Workers :
    attEqual[w] => wpc[w] = "applied" /\ attHalt[w] = "no" /\ ~attLaunched[w]

\* C10 witness: the worker of the running pod "web" was handed the manifest
\* that is on disk and has returned from the attempt.
C10_Witness ==
  \E w \in Workers :
    /\ attEqual[w]
    /\ wpc[w] = "applied"
    /\ disk[PodOf(w)] = FileOf(manifestToLaunch[w])
    /\ running[PodOf(w)] = manifestToLaunch[w].ver

\* C11: when an attempt has returned true, the "after" hooks are run on the
\* manifest that was just applied, and the worker goes back to its select to
\* await the next manifest (a hook error does not stop it).
C11_HooksGetAppliedManifest ==
  [][\A w \in Workers :
       (wpc[w] = "applied" /\ wpc'[w] # "applied")
          => /\ hookArg'[w] = manifestToLaunch[w]
             /\ wpc'[w] = "select"]_vars

\* C12: an attempt in which Install failed calls neither Halt nor Launch and
\* sends the worker to its sleep with the manifest still its pending work;
\* and a worker that is back at its select after a failed attempt still has
\* the newest manifest it received as pending work, so that it retries.
C12_InstallFailureRetries ==
  \A w \in Workers :
    /\ attInstallFailed[w] =>
         /\ wpc[w] = "sleep"
         /\ attHalt[w] = "no"
         /\ ~attLaunched[w]
         /\ working[w]
         /\ manifestToLaunch[w] # ZeroManifest
         /\ manifestToLaunch[w] = lastRecv[w]
    /\ (retrying[w] /\ wpc[w] = "select") =>
         /\ working[w]
         /\ manifestToLaunch[w] # ZeroManifest
         /\ manifestToLaunch[w] = lastRecv[w]

\* C12 witness: a worker that was retrying a manifest saw Install fail again
\* and sleeps with that manifest still pending.
C12_Witness ==
  \E w \in Workers :
    /\ attInstallFailed[w]
    /\ retrying[w]
    /\ wpc[w] = "sleep"
    /\ working[w]
    /\ manifestToLaunch[w] = Manifest(wpod[w], MaxVer)

\* ---------------------------------------- pod lifecycle properties
\* C3: a reader of current_manifest.yaml sees either no file or a complete
\* manifest at every moment during and after Launch calls, also calls that
\* fail part-way.
C3_NoPartialManifest == pfile.st # "partial"

\* C4: when opening or writing current_manifest.yaml failed in a Launch call,
\* the call returns a non-nil error and has performed no MakeCurrent, no
\* PostActivate, no supervisor activation and no service start, whether or
\* not the previous manifest was restored.
C4_WriteFailureStopsLaunch ==
  (wcmFail \in {"open", "write"} /\ lpc \notin {"open", "write", "wcmret"})
     => /\ lpc = "done"
        /\ lret.err # "nil"
        /\ ops = {}

\* C5: when WriteCurrentManifest returns after a write failure or an
\* ownership (uid/gid lookup, chown) failure, current_manifest.yaml holds
\* what it held before the call (absent if it was absent), and a failed
\* restoration gives a non-nil error.
C5_FailedWriteRestores ==
  (lpc = "wcmret" /\ wcmFail \in {"write", "ids", "chown"})
     => /\ pfile = preFile
        /\ (reverted = "failed" => lerr # "nil")

\* C13: in a Launch call, a launchable that failed to start does not keep the
\* loop from reaching the launchables after it and makes the call return
\* (false, nil); with no start failure (enable failures at most) the call
\* returns (true, nil); and a non-nil error comes only from building the
\* launchables, writing the current manifest or flipping a symlink.
C13_LaunchResult ==
  lpc = "done" =>
    /\ (\E i \in DOMAIN startOuts : startOuts[i] = "start")
          => /\ Len(startOuts) = Len(lm.types)
             /\ \A i \in DOMAIN startOuts : successes[i] => startOuts[i] # "skip"
             /\ lret = [ok |-> FALSE, err |-> "nil"]
    /\ (Len(startOuts) = Len(lm.types)
          /\ \A i \in DOMAIN startOuts : startOuts[i] # "start")
          => lret = [ok |-> TRUE, err |-> "nil"]
    /\ lret.err # "nil"
          => \/ LaunchablesErr(lm)
             \/ wcmFail # "none"
             \/ lret.err = "symlink" /\ "MakeCurrent" \in ops /\ startOuts = << >>

\* C13 witness: a call in which the first launchable failed to start and the
\* last one started with an enable error, after the supervisor config
\* failed to build.
C13_Witness ==
  /\ lpc = "done"
  /\ Len(startOuts) = NumLaunchables
  /\ startOuts[1] = "start"
  /\ startOuts[NumLaunchables] = "enable"
  /\ sbConfig # lm.ver
  /\ lret = [ok |-> FALSE, err |-> "nil"]

\* C14: in a Launch call, a launchable is enabled/started only if its
\* PostActivate succeeded; a call that gets past the manifest write and the
\* symlink flips attempts every launchable whose PostActivate succeeded; and a
\* PostActivate failure does not end the call (after one, only a failed
\* symlink flip of a later launchable makes the call return an error).
C14_PostActivateGatesStart ==
  /\ \A i \in DOMAIN startOuts : (startOuts[i] # "skip") <=> successes[i]
  /\ (lpc = "done" /\ lret.err = "nil") => Len(startOuts) = Len(lm.types)
  /\ (lpc = "done" /\ \E i \in DOMAIN successes : ~successes[i])
        => \/ lret.err = "nil"
           \/ lret.err = "symlink" /\ \E i \in 1..(li - 1) : ~successes[i]

\* C14 witness: the first launchable's PostActivate failed and the last one's
\* succeeded; the call skipped the first, started the last and returned
\* (true, nil).
C14_Witness ==
  /\ lpc = "done"
  /\ Len(startOuts) = NumLaunchables
  /\ ~successes[1]
  /\ successes[NumLaunchables]
  /\ startOuts[1] = "skip"
  /\ startOuts[NumLaunchables] = "nil"
  /\ started[NumLaunchables] = lm.ver
  /\ lret = [ok |-> TRUE, err |-> "nil"]

\* C15: an Install, Launch or Halt call with a manifest that has a launchable
\* of an unsupported type returns an error and leaves the current manifest,
\* the launchables' symlinks, the installed artifacts, the config and env
\* files, the supervisor config and the supervised services as they were.
C15_UnsupportedTypeRefused ==
  (opc = "done" /\ op \in {"Install", "Launch", "Halt"} /\ om = UnsupportedManifest)
     => /\ oret.err # "nil"
        /\ ~oret.ok
        /\ PodFiles = pre

\* C15 witness: Install of such a manifest on a pod whose first manifest is
\* installed and running got as far as building the launchables and returned.
C15_Witness ==
  /\ opc = "done"
  /\ op = "Install"
  /\ om = UnsupportedManifest
  /\ oret.err = "unsupported"
  /\ homeDir
  /\ pre.file = FileOf(Manifest(PodId, 1))
  /\ pre.started[1] = 1

\* C16: a Halt call on a manifest whose launchables can be built halts every
\* launchable, whatever the earlier ones returned, and returns (success, nil)
\* with success false exactly when some launchable's halt returned an error
\* that is not a disable error.
C16_HaltAllAndReport ==
  (opc = "done" /\ op = "Halt" /\ om # UnsupportedManifest)
     => /\ Len(haltOuts) = Len(om.types)
        /\ oret.err = "nil"
        /\ oret.ok = (\A i \in DOMAIN haltOuts : haltOuts[i] \in {"nil", "disable"})

\* C16 witness: the first launchable failed to stop, the last one was still
\* halted, with a disable error, and Halt returned (false, nil).
C16_Witness ==
  /\ opc = "done"
  /\ op = "Halt"
  /\ Len(haltOuts) = NumLaunchables
  /\ haltOuts[1] = "stop"
  /\ haltOuts[NumLaunchables] = "disable"
  /\ started[1] # 0
  /\ started[NumLaunchables] = 0
  /\ oret = [ok |-> FALSE, err |-> "nil"]

\* C17: an Uninstall call attempts its steps in the order halt, remove the
\* supervisor config, prune, remove the pod directory, whatever step fails
\* (with no halt when no manifest could be loaded): the removal of the pod
\* directory is always attempted.
C17_UninstallBestEffort ==
  (opc = "done" /\ op = "Uninstall")
     => steps \in { <<"halt", "removeConfig", "prune", "removeAll">>,
                    <<"removeConfig", "prune", "removeAll">> }

\* ------------------------------------------------ roll store properties
\* C18: Put is create-only.  However the Put calls for one new RC id overlap,
\* at most one returns nil while the record exists, and a Put served while
\* the id has a stored Update returns an error and leaves that Update as it
\* was.
C18_PutCreateOnly ==
  /\ \A id \in RCIds : putWins[id] <= 1
  /\ \A c \in Clients :
       (cst[c] = "done" /\ cop[c] = "Put" /\ cpre[c].entry.idx # 0)
          => /\ cres[c].err # "nil"
             /\ cpost[c].entry = cpre[c].entry

\* C18 witness: two Puts of different Updates with the same new RC id have
\* returned, one nil and one "already exists", and the store holds the
\* Update of the first.
C18_Witness ==
  \E c, d \in Clients :
    /\ cst[c] = "done" /\ cop[c] = "Put" /\ cres[c].err = "nil"
    /\ cst[d] = "done" /\ cop[d] = "Put" /\ cres[d].err = "exists"
    /\ carg[c].id = carg[d].id
    /\ carg[c].u # carg[d].u
    /\ rolls[carg[c].id].val = carg[c].u

\* C19: at most one session holds a roll lock key at any time, and a Lock
\* call served while another session holds the key does not take it and
\* leaves the holder as it was: it returns (false, nil), or (false, error)
\* when the KV call itself failed.
C19_LockExclusive ==
  /\ \A id \in RCIds : Cardinality(holders[id]) <= 1
  /\ \A c \in Clients :
       (cst[c] = "done" /\ cop[c] = "Lock" /\ cpre[c].hs \ {carg[c].session} # {})
          => /\ ~cres[c].ok
             /\ cpost[c].hs = cpre[c].hs
             /\ ~cpost[c].kvErr => cres[c] = [ok |-> FALSE, err |-> "nil"]

\* C19 witness: a Lock by session s2 was refused, without an error, while s1
\* held the key, and s1 still holds it.
C19_Witness ==
  \E c \in Clients :
    /\ cst[c] = "done" /\ cop[c] = "Lock"
    /\ carg[c].session = "s2"
    /\ cpre[c].hs = {"s1"}
    /\ cres[c] = [ok |-> FALSE, err |-> "nil"]
    /\ holders[carg[c].id] = {"s1"}

\* ------------------------------------------------------- SpecRoll
BothLocks(c) ==
  /\ holders[RollUpdate.NewRC] = {Session(c)}
  /\ holders[RollUpdate.OldRC] = {Session(c)}

\* C20 as stated: of two roll controllers that took up the same Update and
\* have both exited, exactly one was granted both locks.
C20_ExactlyOneOwns ==
  (\A c \in Clients : rpc[c] = "exited")
     => Cardinality({c \in Clients : owned[c]}) = 1

\* C20: at any moment at most one session holds the locks, and a roll
\* controller that is in the roll loop with its session alive holds both of
\* them, so at most one such controller is in the loop; a controller whose
\* Lock was refused with acquired=false applies no replica-count step and
\* exits; and no step is applied twice from the same replica counts.
C20_LockOwnerRolls ==
  /\ \A c \in Clients :
       /\ (rpc[c] \in Rolling /\ Session(c) \notin dead) => BothLocks(c)
       /\ (cst[c] = "done" /\ cop[c] = "Lock" /\ cpre[c].hs \ {Session(c)} # {}
             /\ ~cpost[c].kvErr)
            => refused[c]
       /\ refused[c] => /\ mutations[c] = 0
                        /\ ~owned[c]
                        /\ rpc[c] \in {"release", "exited"}
       /\ mutations[c] > 0 => owned[c]
  /\ ~dup

\* C20 witness: one controller holds both locks and has applied a step; the
\* other was refused the new RC's lock, applied nothing and has exited.
C20_Witness ==
  \E c, d \in Clients :
    /\ c # d
    /\ rpc[c] \in Rolling
    /\ BothLocks(c)
    /\ mutations[c] > 0
    /\ refused[d]
    /\ rpc[d] = "exited"
    /\ mutations[d] = 0

\* The roll controller that is in the loop with both locks and its session.
InLoop(c) == rpc[c] \in Rolling /\ Session(c) \notin dead /\ BothLocks(c)

\* C21 as stated: while a controller is between the grant of the locks and
\* the delete of the Update record, and is not waiting for headroom, the old
\* RC's replica count plus the number of nodes on which the new RC's pod is
\* Passing is at least MinimumReplicas.
C21_FloorAgainstHealth ==
  \A c \in Clients :
    (InLoop(c) /\ rpc[c] \in {"observe", "apply"})
       => rcDesired[RollUpdate.OldRC] + healthy >= RollUpdate.MinimumReplicas

\* C21: a controller applies a step only from an observation in which the
\* old RC's count plus the observed healthyNew exceeds MinimumReplicas, and
\* every applied step leaves the old RC's count plus the healthyNew it was
\* computed from at or above MinimumReplicas.
C21_FloorAgainstSample ==
  /\ \A c \in Clients :
       rpc[c] = "apply"
          => robs[c].old + robs[c].healthy > RollUpdate.MinimumReplicas
  /\ lastStep # NoStep
        => lastStep.old + lastStep.healthy >= RollUpdate.MinimumReplicas

\* C21 witness: a step was applied that took the old RC down to the floor
\* against the health it was computed from, and since then fewer nodes are
\* Passing, so that the floor against the current health is broken.
C21_Witness ==
  /\ lastStep # NoStep
  /\ lastStep.old + lastStep.healthy = RollUpdate.MinimumReplicas
  /\ rcDesired[RollUpdate.OldRC] = lastStep.old
  /\ healthy < lastStep.healthy
  /\ \E c \in Clients : InLoop(c) /\ mutations[c] > 0

\* ------------------------------------------------------- FairSpecRoll
\* The roll is complete: the new RC is at the target, no old replicas remain,
\* the Update record is deleted and the owner has released its session.
RollDone ==
  /\ rcDesired[RollUpdate.NewRC] = RollUpdate.DesiredReplicas
  /\ rcDesired[RollUpdate.OldRC] = 0
  /\ rolls[RollUpdate.NewRC] = NoEntry
  /\ \E c \in Clients : owned[c] /\ rpc[c] = "exited" /\ Session(c) \in dead

\* C22: when nothing fails and the new pods all get to Passing, the roll
\* eventually completes, whatever the replica counts it starts from.
C22_RollCompletes == <>RollDone

\* ------------------------------------------------------- SpecWatch
\* How often v occurs in a batch, and at how many keys of a tree.
Count(batch, v) == Cardinality({i \in DOMAIN batch : batch[i] = v})
KeysWith(tree, v) == Cardinality({k \in RCIds : tree[k].idx # 0 /\ tree[k].val = v})

\* C23: every batch sent on outCh holds exactly the Updates that parse of
\* the roll tree as it was at the kv.List that produced it, each as often as
\* it is in the tree, whatever the goroutine had listed before.
C23_BatchIsCompleteSet ==
  emitted # NoBatch =>
    /\ \A i \in DOMAIN emitted.batch : emitted.batch[i] \in Updates
    /\ \A v \in Updates : Count(emitted.batch, v) = KeysWith(emitted.snap, v)

\* C23 witness: a batch from a later listing holds an Update that had not
\* changed since the listing before, next to one that had.
C23_Witness ==
  /\ emitted # NoBatch
  /\ emitted.wait > 0
  /\ Len(emitted.batch) = 2
  /\ \E k \in RCIds : emitted.snap[k].idx \in 1..emitted.wait

\* C24: for every listing, one error per entry that does not parse has been
\* received from errCh before its batch is sent, the batch has one element
\* per entry that parses and none for the others, and the goroutine ends
\* only on a closed quit channel.
C24_BadEntrySkipped ==
  /\ emitted # NoBatch =>
       /\ emitted.errs = KeysWith(emitted.snap, Garbled)
       /\ Len(emitted.batch) =
             Cardinality({k \in RCIds : emitted.snap[k].idx # 0}) - emitted.errs
  /\ tpc = "sendOut" => errsSent = KeysWith(lst.snap, Garbled)
  /\ tpc = "exited" => quitCh

\* C24 witness: a listing with one entry that parses and one that does not
\* gave one error and a batch of one, and the goroutine now has the batch of
\* a later listing to send.
C24_Witness ==
  /\ emitted # NoBatch
  /\ emitted.errs = 1
  /\ Len(emitted.batch) = 1
  /\ tpc = "sendOut"
  /\ currentIndex > emitted.index
  /\ wout # emitted.batch

\* C25: once the quit channel is closed, the goroutine eventually exits with
\* outCh and errCh closed.
C25_QuitEndsWatch ==
  quitCh ~> (tpc = "exited" /\ closed = {"outCh", "errCh"})

\* ------------------------------------------------------- SpecUpdatePods
RealityPathSet == {ureal[j].path : j \in DOMAIN ureal}
CurrentPathSet == {ucur[j].manifest.path : j \in DOMAIN ucur}

C29_ChangedPodRefreshed ==
  upc = "done" =>
    /\ Len(unew) = Len(ureal)
    /\ \A i \in DOMAIN unew :
         \E j \in DOMAIN ureal : unew[i].manifest = ureal[j]

\* ------------------------------------------------------- SpecHealth
\* C27: a pod of the reality tree has at most one MonitorHealth goroutine.
C27_OneMonitorPerPod ==
  \A q \in PodPaths : q \in realTree => monitors[q] <= 1

\* C28: while WatchHealth runs, a monitor of a pod that has left the reality
\* tree is stopped, unless the pod comes back first.
C28_MonitorOfGonePodStops ==
  \A q \in PodPaths :
    (q \notin realTree /\ monitors[q] > 0)
      ~> (monitors[q] = 0 \/ q \in realTree \/ hpc \in {"failed", "exited"})

\* C30: the Result of every health check has the status Passing, Warning or
\* Critical, and Critical when the check could not be run or failed.
C30_StatusClassified ==
  lastResult # NoResult =>
    /\ lastResult.status \in {"passing", "warning", "critical"}
    /\ lastResult.outcome # "exit0" => lastResult.status = "critical"
    /\ lastResult.outcome = "exit0" => lastResult.status = "passing"

\* C31: an error of ListPods never ends WatchHealth: it is never in the
\* state of having returned that error.
C31_ListErrorNotFatal == hpc # "failed"

\* ------------------------------------------------------- SpecPod, again
\* C32: between the Launch calls on the pod, current_manifest.yaml, if it
\* exists, holds a manifest whose id is the pod's.
C32_CurrentManifestIdIsPod ==
  (lpc \in {"idle", "done"} /\ pfile.st # "absent") => pfile.m.id = PodId

\* C33: a Launch call returns success = true only if every launchable of the
\* manifest was started in the call: its PostActivate succeeded and its
\* launch gave no start error.
C33_SuccessMeansAllStarted ==
  (lpc = "done" /\ lret.ok) =>
    /\ Len(startOuts) = Len(lm.types)
    /\ \A i \in DOMAIN startOuts :
         successes[i] /\ startOuts[i] \in {"nil", "enable"}

\* C34: when buildRunitServices has returned an error, the step Launch takes
\* next starts no launchable and does not make the call return success.
C34_BuildFailureStartsNothing ==
  [][(lpc = "start" /\ startOuts = << >> /\ lerr # "nil")
       => /\ started' = started
          /\ "Start" \notin ops'
          /\ ~(lpc' = "done" /\ lret'.ok)]_vars

====
